---- MODULE Spec2Model ----
(***************************************************************************)
(* Model of the quoting core of nestjs-ecommerce: the price computation of *)
(* QuotesService (src/src/modules/quotes/quotes.service.ts), the STL       *)
(* geometry analysis of StlParserService (src/unnamed/part_005), the       *)
(* upload handler of FilesService (src/unnamed/part_006) and the quote     *)
(* creation of QuotesService.createQuote.                                  *)
(*                                                                         *)
(* JavaScript numbers are modelled as exact rationals [n |-> numerator,    *)
(* d |-> denominator] in lowest terms, with d = 0 for the three IEEE       *)
(* specials: NaN = 0/0, +Infinity = 1/0, -Infinity = -1/0.  Arithmetic is  *)
(* therefore exact where IEEE doubles round to 53 bits; signed zero is not *)
(* distinguished.                                                          *)
(***************************************************************************)
EXTENDS Integers, Sequences, FiniteSets, TLC

VARIABLES
    quoteInput,   \* arguments of the pending calculatePricing call
    pricing,      \* the PricingBreakdown it returned, NoValue before the call
    uploads,      \* buffers handed to analyzeStl so far
    analyses,     \* analyses[i] is the FileAnalysis returned for uploads[i]
    files,        \* fileRepository: files[id] is the File row last saved for id
    quotes,       \* quoteRepository: the Quote rows saved so far
    request,      \* arguments of the pending createQuote call
    replies,      \* what each finished uploadFile / createQuote call gave its caller
    clock,        \* the time new Date() gives, in hours
    cart,         \* cartItemRepository: the rows of cart_items, and the ids issued
    orders,       \* orderRepository with the order_status_history rows of each order
    payments,     \* paymentRepository
    users,        \* userRepository
    refreshTokens, \* refreshTokenRepository
    calls,        \* refreshTokens calls that have read their token and not yet saved
    addresses     \* addressRepository

storeVars == <<clock, cart, orders, payments, users, refreshTokens, calls, addresses>>
vars == <<quoteInput, pricing, uploads, analyses, files, quotes, request, replies,
          storeVars>>
quoteVars == <<quoteInput, pricing>>
stlVars == <<uploads, analyses>>
repoVars == <<files, quotes, request, replies>>

NoValue == [kind |-> "none"]

----------------------------------------------------------------------------
(* JavaScript number arithmetic *)

NaN == [n |-> 0, d |-> 0]
PosInf == [n |-> 1, d |-> 0]
NegInf == [n |-> -1, d |-> 0]

AbsInt(i) == IF i < 0 THEN -i ELSE i
SignInt(i) == IF i > 0 THEN 1 ELSE IF i < 0 THEN -1 ELSE 0

RECURSIVE GCD(_, _)
GCD(a, b) == IF b = 0 THEN a ELSE GCD(b, a % b)

\* The rational n/d (d > 0) in lowest terms.
Num(n, d) == LET g == GCD(AbsInt(n), d) IN [n |-> n \div g, d |-> d \div g]
Whole(i) == [n |-> i, d |-> 1]

Neg(a) == [n |-> -a.n, d |-> a.d]

Add(a, b) ==
    IF a = NaN \/ b = NaN THEN NaN
    ELSE IF a.d = 0 /\ b.d = 0 THEN (IF a = b THEN a ELSE NaN)
    ELSE IF a.d = 0 THEN a
    ELSE IF b.d = 0 THEN b
    ELSE Num(a.n * b.d + b.n * a.d, a.d * b.d)

Sub(a, b) == Add(a, Neg(b))

Mul(a, b) ==
    IF a = NaN \/ b = NaN THEN NaN
    ELSE IF a.d = 0 \/ b.d = 0
         THEN (IF a.n = 0 \/ b.n = 0 THEN NaN
               ELSE [n |-> SignInt(a.n) * SignInt(b.n), d |-> 0])
    ELSE LET g1 == GCD(AbsInt(a.n), b.d)
             g2 == GCD(AbsInt(b.n), a.d)
         IN  [n |-> (a.n \div g1) * (b.n \div g2),
              d |-> (a.d \div g2) * (b.d \div g1)]

Div(a, b) ==
    IF a = NaN \/ b = NaN THEN NaN
    ELSE IF b.d = 0 THEN (IF a.d = 0 THEN NaN ELSE Whole(0))
    ELSE IF b.n = 0
         THEN (IF a.n = 0 THEN NaN ELSE [n |-> SignInt(a.n), d |-> 0])
    ELSE IF a.d = 0 THEN [n |-> SignInt(a.n) * SignInt(b.n), d |-> 0]
    ELSE Mul(a, [n |-> SignInt(b.n) * b.d, d |-> AbsInt(b.n)])

\* a < b; every comparison with NaN is false.
Lt(a, b) ==
    IF a = NaN \/ b = NaN THEN FALSE
    ELSE IF a.d = 0 /\ b.d = 0 THEN a.n < b.n
    ELSE a.n * b.d < b.n * a.d

Gt(a, b) == Lt(b, a)
Ge(a, b) == a # NaN /\ b # NaN /\ ~Lt(a, b)

MathMax(a, b) == IF a = NaN \/ b = NaN THEN NaN ELSE IF Lt(a, b) THEN b ELSE a
MathMin(a, b) == IF a = NaN \/ b = NaN THEN NaN ELSE IF Lt(b, a) THEN b ELSE a
MathAbs(a) == [n |-> AbsInt(a.n), d |-> a.d]

\* Math.round: the nearest integer, a tie going towards +Infinity.
MathRound(a) == IF a.d = 0 THEN a ELSE Whole((2 * a.n + a.d) \div (2 * a.d))

\* Math.round(x * 100) / 100
Round2(x) == Div(MathRound(Mul(x, Whole(100))), Whole(100))

----------------------------------------------------------------------------
(* QuotesService.calculatePricing *)

LABOR_RATE_PER_HOUR == 15
BASE_PRINT_SPEED == 30

POST_PROCESSING_COSTS ==
    ("sanding" :> 20) @@ ("painting" :> 35) @@ ("polishing" :> 25) @@
    ("assembly" :> 50) @@ ("heat-treatment" :> 40)

\* POST_PROCESSING_COSTS is an object literal, so a property read that misses
\* its own keys continues on Object.prototype.
ObjectPrototypeKeys ==
    {"constructor", "toString", "toLocaleString", "valueOf", "hasOwnProperty",
     "isPrototypeOf", "propertyIsEnumerable", "__proto__"}

\* POST_PROCESSING_COSTS[process]: a number, a function/object inherited from
\* Object.prototype, or undefined.
PropertyLookup(process) ==
    IF process \in DOMAIN POST_PROCESSING_COSTS
    THEN [kind |-> "number", value |-> Whole(POST_PROCESSING_COSTS[process])]
    ELSE IF process \in ObjectPrototypeKeys
    THEN [kind |-> "object", value |-> NaN]
    ELSE [kind |-> "undefined", value |-> NaN]

\* The truthiness tested by if (POST_PROCESSING_COSTS[process]).
ToBoolean(v) ==
    CASE v.kind = "number" -> v.value # NaN /\ v.value.n # 0
      [] v.kind = "object" -> TRUE
      [] v.kind = "string" -> TRUE
      [] OTHER -> FALSE

\* postProcessingFee += cost.  number + number adds; with a function or a
\* string on either side both are converted to strings and concatenated, and
\* the text ("0function Object() { [native code] }...") is not numeric.
PlusAssign(acc, cost) ==
    IF acc.kind = "number" /\ cost.kind = "number"
    THEN [kind |-> "number", value |-> Add(acc.value, cost.value)]
    ELSE [kind |-> "string", value |-> NaN]

\* The for loop over config.postProcessing.
RECURSIVE SumPostProcessing(_, _)
SumPostProcessing(postProcessing, fee) ==
    IF postProcessing = <<>> THEN fee
    ELSE LET cost == PropertyLookup(Head(postProcessing))
         IN  SumPostProcessing(Tail(postProcessing),
                 IF ToBoolean(cost) THEN PlusAssign(fee, cost) ELSE fee)

\* ToNumber, applied by the * of postProcessingFee * quantity.
ToNumber(v) == v.value

\* Mutant: the infill-scaled and the fixed share of the volume exchanged.
EffectiveVolumeSwapped(volumeCm3, infillPercentage) ==
    Add(Mul(Mul(volumeCm3, Div(infillPercentage, Whole(100))), Num(2, 10)),
        Mul(volumeCm3, Num(8, 10)))

EffectiveVolume(volumeCm3, infillPercentage) ==
    Add(Mul(Mul(volumeCm3, Div(infillPercentage, Whole(100))), Num(8, 10)),
        Mul(volumeCm3, Num(2, 10)))

\* Mutant: the tier thresholds tested with > instead of >=.
VolumeDiscountStrict(subtotal, quantity) ==
    IF Gt(quantity, Whole(10)) THEN Round2(Mul(subtotal, Num(1, 10)))
    ELSE IF Gt(quantity, Whole(5)) THEN Round2(Mul(subtotal, Num(5, 100)))
    ELSE Whole(0)

VolumeDiscount(subtotal, quantity) ==
    IF Ge(quantity, Whole(10)) THEN Round2(Mul(subtotal, Num(1, 10)))
    ELSE IF Ge(quantity, Whole(5)) THEN Round2(Mul(subtotal, Num(5, 100)))
    ELSE Whole(0)

FloorTotal(subtotal, discount, minPrice) ==
    MathMax(Round2(Sub(subtotal, discount)), minPrice)

calculatePricing(volumeCm3, material, config) ==
    LET quantity == config.quantity
        effectiveVolume == EffectiveVolume(volumeCm3, config.infillPercentage)
        materialCostPerUnit == Mul(effectiveVolume, material.pricing.basePrice)
        printTimePerUnit == Div(effectiveVolume, Whole(BASE_PRINT_SPEED))
        laborCostPerUnit == Mul(printTimePerUnit, Whole(LABOR_RATE_PER_HOUR))
        feeSum == SumPostProcessing(config.postProcessing,
                                    [kind |-> "number", value |-> Whole(0)])
        materialCost == Round2(Mul(materialCostPerUnit, quantity))
        laborCost == Round2(Mul(laborCostPerUnit, quantity))
        setupFee == material.pricing.setupFee
        postProcessingFee == Round2(Mul(ToNumber(feeSum), quantity))
        subtotal == Add(Add(Add(materialCost, laborCost), setupFee),
                        postProcessingFee)
        discount == VolumeDiscount(subtotal, quantity)
        total == FloorTotal(subtotal, discount, material.pricing.minPrice)
    IN  [kind |-> "PricingBreakdown",
         materialCost |-> materialCost,
         laborCost |-> laborCost,
         setupFee |-> setupFee,
         postProcessingFee |-> postProcessingFee,
         subtotal |-> Round2(subtotal),
         discount |-> discount,
         total |-> total,
         currency |-> IF material.pricing.currency # "" THEN material.pricing.currency
                      ELSE "AED"]

----------------------------------------------------------------------------
(* Inputs of the quote model *)

MaxQuantity == 11
MaxPostProcessing == 2

\* Catalog entries: two of seedDefaultMaterials and two an admin can create
\* through MaterialPricingDto (numbers >= 0, currency optional).
Materials ==
    { [pricing |-> [basePrice |-> Num(1, 2), setupFee |-> Whole(10),
                    minPrice |-> Whole(25), currency |-> "AED"]],
      [pricing |-> [basePrice |-> Num(12, 10), setupFee |-> Whole(15),
                    minPrice |-> Whole(40), currency |-> "AED"]],
      [pricing |-> [basePrice |-> Num(333, 1000), setupFee |-> Num(10005, 1000),
                    minPrice |-> Whole(0), currency |-> ""]],
      [pricing |-> [basePrice |-> Whole(0), setupFee |-> Whole(0),
                    minPrice |-> Num(5, 2), currency |-> "USD"]] }

\* FileAnalysis.volume is rounded to two decimals.
Volumes == {Num(1, 100), Whole(10), Num(1234, 100), Whole(100)}

\* CreateQuoteDto: quantity 1..1000, infillPercentage 10..100.
Quantities == {Whole(q) : q \in 1..MaxQuantity} \cup {Num(19, 2), Whole(1000)}
Infills == {Whole(10), Whole(20), Whole(55), Whole(100)}

\* @IsString({each: true}): any strings, in any order, repeated or not.
Tags == {"sanding", "heat-treatment", "engraving", "constructor"}
TagLists == UNION {[1..k -> Tags] : k \in 0..MaxPostProcessing}

QuoteInputs ==
    [volumeCm3 : Volumes,
     material : Materials,
     configuration : [quantity : Quantities, infillPercentage : Infills,
                      postProcessing : TagLists]]

----------------------------------------------------------------------------
(* The quote model: one calculatePricing call on a chosen input *)

\* The repositories of the store (cart, orders, payments, users, tokens,
\* addresses) empty, at time 0.
InitStore ==
    /\ clock = 0
    /\ cart = [items |-> <<>>, issued |-> 0]
    /\ orders = <<>>
    /\ payments = [rows |-> <<>>, intents |-> 0]
    /\ users = [rows |-> <<>>, resets |-> 0]
    /\ refreshTokens = <<>>
    /\ calls = {}
    /\ addresses = [rows |-> <<>>, issued |-> 0]

\* Both repositories empty and no call received.
InitRepositories ==
    /\ files = <<>>
    /\ quotes = <<>>
    /\ request = NoValue
    /\ replies = <<>>
    /\ InitStore

InitQuote ==
    /\ quoteInput \in QuoteInputs
    /\ pricing = NoValue
    /\ uploads = <<>>
    /\ analyses = <<>>
    /\ InitRepositories

CalculatePricing ==
    /\ pricing = NoValue
    /\ pricing' = calculatePricing(quoteInput.volumeCm3, quoteInput.material,
                                   quoteInput.configuration)
    /\ UNCHANGED <<quoteInput, stlVars, repoVars, storeVars>>

NextQuote == CalculatePricing

SpecQuote == InitQuote /\ [][NextQuote]_vars

Priced == pricing # NoValue

----------------------------------------------------------------------------
(* StlParserService: number helpers *)

RECURSIVE Pow2(_)
Pow2(k) == IF k = 0 THEN 1 ELSE 2 * Pow2(k - 1)

RECURSIVE Pow10(_)
Pow10(k) == IF k = 0 THEN 1 ELSE 10 * Pow10(k - 1)

\* The largest r with r * r <= m, searched between lo and hi.
RECURSIVE ISqrtIn(_, _, _)
ISqrtIn(m, lo, hi) ==
    IF lo = hi THEN lo
    ELSE LET mid == (lo + hi + 1) \div 2
         IN  IF mid * mid <= m THEN ISqrtIn(m, mid, hi) ELSE ISqrtIn(m, lo, mid - 1)

ISqrt(m) == ISqrtIn(m, 0, IF m < 46340 THEN m ELSE 46340)

\* Math.sqrt.  Exact when the argument is the square of a rational; any other
\* root is irrational and is truncated to 1/100 here.
MathSqrt(a) ==
    IF a = NaN \/ a.n < 0 THEN NaN
    ELSE IF a.d = 0 THEN PosInf
    ELSE LET rn == ISqrt(a.n)
             rd == ISqrt(a.d)
         IN  IF rn * rn = a.n /\ rd * rd = a.d THEN Num(rn, rd)
             ELSE Num(ISqrt(a.n * a.d * 10000), a.d * 100)

----------------------------------------------------------------------------
(* StlParserService: Buffer reads.  A buffer is a sequence of bytes; the    *)
(* byte at JavaScript offset o is buffer[o + 1].                            *)

\* buffer.readUInt32LE(offset)
readUInt32LE(buffer, offset) ==
    buffer[offset + 1] + 256 * buffer[offset + 2] + 65536 * buffer[offset + 3]
        + 16777216 * buffer[offset + 4]

\* buffer.readFloatLE(offset): IEEE-754 binary32, least significant byte first.
readFloatLE(buffer, offset) ==
    LET b0 == buffer[offset + 1]
        b1 == buffer[offset + 2]
        b2 == buffer[offset + 3]
        b3 == buffer[offset + 4]
        sign == IF b3 >= 128 THEN -1 ELSE 1
        exponent == (b3 % 128) * 2 + (b2 \div 128)
        fraction == (b2 % 128) * 65536 + b1 * 256 + b0
    IN  IF exponent = 255
        THEN (IF fraction = 0 THEN [n |-> sign, d |-> 0] ELSE NaN)
        ELSE IF exponent = 0
        THEN (IF fraction = 0 THEN Whole(0) ELSE Num(sign * fraction, Pow2(149)))
        ELSE IF exponent >= 150
        THEN Whole(sign * (8388608 + fraction) * Pow2(exponent - 150))
        ELSE Num(sign * (8388608 + fraction), Pow2(150 - exponent))

\* One character of buffer.toString('ascii'): the high bit is dropped.
AsciiChar(b) == b % 128

\* buffer.toString('ascii')
AsciiString(buffer) == [i \in 1..Len(buffer) |-> AsciiChar(buffer[i])]

ToLowerChar(c) == IF c >= 65 /\ c <= 90 THEN c + 32 ELSE c

\* String.prototype.toLowerCase
toLowerCase(str) == [i \in 1..Len(str) |-> ToLowerChar(str[i])]

\* String.prototype.startsWith
startsWith(str, prefix) ==
    /\ Len(str) >= Len(prefix)
    /\ SubSeq(str, 1, Len(prefix)) = prefix

StrSolid == <<115, 111, 108, 105, 100>>
StrVertex == <<118, 101, 114, 116, 101, 120>>
StrEndfacet == <<101, 110, 100, 102, 97, 99, 101, 116>>

\* Mutant: the header compared without toLowerCase.
isBinaryStlCaseSensitive(buffer) ==
    ~startsWith(AsciiString(SubSeq(buffer, 1, IF Len(buffer) < 5 THEN Len(buffer) ELSE 5)),
                StrSolid)

isBinaryStl(buffer) ==
    LET header == toLowerCase(AsciiString(
                      SubSeq(buffer, 1, IF Len(buffer) < 5 THEN Len(buffer) ELSE 5)))
    IN  ~startsWith(header, StrSolid)

----------------------------------------------------------------------------
(* StlParserService: geometry *)

\* Mutant: the norm of the cross product without the factor 0.5.
calculateTriangleAreaNoHalf(vertices) ==
    LET ax == Sub(vertices[2][1], vertices[1][1])
        ay == Sub(vertices[2][2], vertices[1][2])
        az == Sub(vertices[2][3], vertices[1][3])
        bx == Sub(vertices[3][1], vertices[1][1])
        by == Sub(vertices[3][2], vertices[1][2])
        bz == Sub(vertices[3][3], vertices[1][3])
        cx == Sub(Mul(ay, bz), Mul(az, by))
        cy == Sub(Mul(az, bx), Mul(ax, bz))
        cz == Sub(Mul(ax, by), Mul(ay, bx))
    IN  MathSqrt(Add(Add(Mul(cx, cx), Mul(cy, cy)), Mul(cz, cz)))

calculateTriangleArea(vertices) ==
    LET v0 == vertices[1]
        v1 == vertices[2]
        v2 == vertices[3]
        ax == Sub(v1[1], v0[1])
        ay == Sub(v1[2], v0[2])
        az == Sub(v1[3], v0[3])
        bx == Sub(v2[1], v0[1])
        by == Sub(v2[2], v0[2])
        bz == Sub(v2[3], v0[3])
        cx == Sub(Mul(ay, bz), Mul(az, by))
        cy == Sub(Mul(az, bx), Mul(ax, bz))
        cz == Sub(Mul(ax, by), Mul(ay, bx))
    IN  Mul(Num(1, 2), MathSqrt(Add(Add(Mul(cx, cx), Mul(cy, cy)), Mul(cz, cz))))

calculateSignedVolume(vertices) ==
    LET v0 == vertices[1]
        v1 == vertices[2]
        v2 == vertices[3]
    IN  Div(Add(Add(
                Mul(v0[1], Sub(Mul(v1[2], v2[3]), Mul(v2[2], v1[3]))),
                Mul(v1[1], Sub(Mul(v2[2], v0[3]), Mul(v0[2], v2[3])))),
                Mul(v2[1], Sub(Mul(v0[2], v1[3]), Mul(v1[2], v0[3])))),
            Whole(6))

\* The accumulators of both decoders before the first triangle.
InitialAccumulator ==
    [min |-> <<PosInf, PosInf, PosInf>>,
     max |-> <<NegInf, NegInf, NegInf>>,
     totalVolume |-> Whole(0),
     totalSurfaceArea |-> Whole(0),
     triangleCount |-> 0,
     currentVertices |-> <<>>]

\* minX = Math.min(minX, x); ... maxZ = Math.max(maxZ, z)
ExtendBounds(acc, vertex) ==
    [acc EXCEPT !.min = [k \in 1..3 |-> MathMin(acc.min[k], vertex[k])],
                !.max = [k \in 1..3 |-> MathMax(acc.max[k], vertex[k])]]

\* totalSurfaceArea += area; totalVolume += volume
AddTriangle(acc, vertices) ==
    [acc EXCEPT !.totalSurfaceArea = Add(@, calculateTriangleArea(vertices)),
                !.totalVolume = Add(@, calculateSignedVolume(vertices))]

\* Mutant: the signed sum converted without Math.abs.
VolumeCm3Signed(totalVolume) == Div(totalVolume, Whole(1000))

\* Math.abs(totalVolume) / 1000
VolumeCm3(totalVolume) == Div(MathAbs(totalVolume), Whole(1000))

\* Mutant: totalVolume >= 0.
IsWatertightNonNegative(totalVolume) == Ge(totalVolume, Whole(0))

\* isWatertight: totalVolume > 0
IsWatertight(totalVolume) == Gt(totalVolume, Whole(0))

\* The analysis both decoders return from their accumulators.
BuildAnalysis(acc, triangleCount) ==
    [kind |-> "FileAnalysis",
     volume |-> Round2(VolumeCm3(acc.totalVolume)),
     surfaceArea |-> Round2(Div(acc.totalSurfaceArea, Whole(100))),
     boundingBox |-> [x |-> Round2(Sub(acc.max[1], acc.min[1])),
                      y |-> Round2(Sub(acc.max[2], acc.min[2])),
                      z |-> Round2(Sub(acc.max[3], acc.min[3]))],
     triangleCount |-> triangleCount,
     isWatertight |-> IsWatertight(acc.totalVolume),
     hasErrors |-> FALSE]

\* throw new Error(message)
Throw(message) == [kind |-> "Error", message |-> message]

----------------------------------------------------------------------------
(* StlParserService.analyzeBinaryStl *)

\* The three vertices of record i.
BinaryVertices(buffer, i) ==
    LET offset == 84 + i * 50
    IN  [v \in 1..3 |->
            LET vOffset == offset + 12 + (v - 1) * 12
            IN  <<readFloatLE(buffer, vOffset), readFloatLE(buffer, vOffset + 4),
                  readFloatLE(buffer, vOffset + 8)>>]

\* The loop for (let i = 0; i < triangleCount; i++), from iteration i on.
RECURSIVE BinaryLoop(_, _, _, _)
BinaryLoop(buffer, triangleCount, i, acc) ==
    IF i >= triangleCount THEN acc
    ELSE LET vertices == BinaryVertices(buffer, i)
             bounded == ExtendBounds(ExtendBounds(ExtendBounds(acc, vertices[1]),
                                                  vertices[2]), vertices[3])
         IN  BinaryLoop(buffer, triangleCount, i + 1, AddTriangle(bounded, vertices))

analyzeBinaryStl(buffer) ==
    IF Len(buffer) < 84 THEN Throw("Invalid binary STL: file too small")
    ELSE LET triangleCount == readUInt32LE(buffer, 80)
             \* buffer.length < 84 + triangleCount * 50, decided without
             \* forming the product (a count read from four arbitrary bytes
             \* takes it past 32 bits)
             tooShort == triangleCount > (Len(buffer) - 84) \div 50
         IN  IF tooShort
             THEN Throw("Invalid binary STL: unexpected file size")
             ELSE BuildAnalysis(BinaryLoop(buffer, triangleCount, 0, InitialAccumulator),
                                triangleCount)

----------------------------------------------------------------------------
(* StlParserService.analyzeAsciiStl: string helpers *)

\* The characters String.prototype.trim and the pattern \s treat as white
\* space, among the 128 an 'ascii' decoding can produce.
WhiteSpace == {9, 10, 11, 12, 13, 32}

Minimum(S) == CHOOSE i \in S : \A j \in S : i <= j
Maximum(S) == CHOOSE i \in S : \A j \in S : i >= j

\* str.split(sep) for a one-character separator, from index `from` on.
RECURSIVE splitChar(_, _, _)
splitChar(str, sep, from) ==
    LET hits == {i \in from..Len(str) : str[i] = sep}
    IN  IF hits = {} THEN <<SubSeq(str, from, Len(str))>>
        ELSE <<SubSeq(str, from, Minimum(hits) - 1)>>
                 \o splitChar(str, sep, Minimum(hits) + 1)

\* String.prototype.trim
trim(str) ==
    LET solid == {i \in 1..Len(str) : str[i] \notin WhiteSpace}
    IN  IF solid = {} THEN <<>> ELSE SubSeq(str, Minimum(solid), Maximum(solid))

\* str.split(/\s+/) of a trimmed string, from index `from` on.
RECURSIVE splitWhiteSpace(_, _)
splitWhiteSpace(str, from) ==
    LET gaps == {i \in from..Len(str) : str[i] \in WhiteSpace}
    IN  IF gaps = {} THEN <<SubSeq(str, from, Len(str))>>
        ELSE LET gap == Minimum(gaps)
                 rest == {i \in gap..Len(str) : str[i] \notin WhiteSpace}
             IN  <<SubSeq(str, from, gap - 1)>>
                     \o (IF rest = {} THEN <<<<>>>>
                         ELSE splitWhiteSpace(str, Minimum(rest)))

IsDigit(c) == c >= 48 /\ c <= 57

\* The number of decimal digits of str starting at index p.
DigitRun(str, p) ==
    LET stops == {i \in p..Len(str) : ~IsDigit(str[i])}
    IN  IF p > Len(str) THEN 0
        ELSE IF stops = {} THEN Len(str) - p + 1
        ELSE Minimum(stops) - p

\* The value of the len decimal digits of str starting at index p.
RECURSIVE DigitsValue(_, _, _)
DigitsValue(str, p, len) ==
    IF len = 0 THEN 0
    ELSE 10 * DigitsValue(str, p, len - 1) + (str[p + len - 1] - 48)

\* parseFloat: the longest prefix that is a decimal literal (sign, digits,
\* fraction, exponent), NaN when there is none.  The literal "Infinity" cannot
\* occur: the decoder lowercases the line first.
parseFloat(str) ==
    LET signed == Len(str) >= 1 /\ str[1] \in {43, 45}
        \* mantissa * 10^exponent, the exponent's expLen digits at expStart
        Scaled(mantissa, negative, expStart, expLen) ==
            IF expLen = 0 THEN mantissa
            ELSE IF negative
            THEN Div(mantissa, Whole(Pow10(DigitsValue(str, expStart, expLen))))
            ELSE Mul(mantissa, Whole(Pow10(DigitsValue(str, expStart, expLen))))
        \* The exponent part, an "e" or "E" at index e.
        Exponent(mantissa, e, expSigned) ==
            Scaled(mantissa, expSigned /\ str[e + 1] = 45,
                   IF expSigned THEN e + 2 ELSE e + 1,
                   DigitRun(str, IF expSigned THEN e + 2 ELSE e + 1))
        Mantissa(sign, p, intLen, fracLen) ==
            Num(sign * (DigitsValue(str, p, intLen) * Pow10(fracLen)
                        + DigitsValue(str, p + intLen + 1, fracLen)),
                Pow10(fracLen))
        \* The literal whose integer digits start at p and whose mantissa ends
        \* before index e.
        Literal(sign, p, intLen, fracLen, e) ==
            IF intLen = 0 /\ fracLen = 0 THEN NaN
            ELSE IF e <= Len(str) /\ str[e] \in {101, 69}
            THEN Exponent(Mantissa(sign, p, intLen, fracLen), e,
                          e + 1 <= Len(str) /\ str[e + 1] \in {43, 45})
            ELSE Mantissa(sign, p, intLen, fracLen)
        Fraction(sign, p, intLen, fracLen) ==
            Literal(sign, p, intLen, fracLen, p + intLen + 1 + fracLen)
        Integer(sign, p, intLen) ==
            IF p + intLen <= Len(str) /\ str[p + intLen] = 46
            THEN Fraction(sign, p, intLen, DigitRun(str, p + intLen + 1))
            ELSE Literal(sign, p, intLen, 0, p + intLen)
        Unsigned(sign, p) == Integer(sign, p, DigitRun(str, p))
    IN  Unsigned(IF signed /\ str[1] = 45 THEN -1 ELSE 1, IF signed THEN 2 ELSE 1)

----------------------------------------------------------------------------
(* StlParserService.analyzeAsciiStl *)

\* Mutant: the vertices of an unfinished facet are kept for the next one.
EndfacetKeepsVertices(acc) ==
    IF Len(acc.currentVertices) = 3
    THEN [AddTriangle([acc EXCEPT !.triangleCount = @ + 1], acc.currentVertices)
             EXCEPT !.currentVertices = <<>>]
    ELSE acc

\* The branch of a line that starts with 'endfacet'.
Endfacet(acc) ==
    LET Emptied(counted) == [counted EXCEPT !.currentVertices = <<>>]
    IN  Emptied(IF Len(acc.currentVertices) = 3
                THEN AddTriangle([acc EXCEPT !.triangleCount = @ + 1],
                                 acc.currentVertices)
                ELSE acc)

\* The body of for (const line of lines).
AsciiLine(acc, line) ==
    LET \* currentVertices.push({ x, y, z }) and the six bounds
        PushVertex(vertex) ==
            ExtendBounds([acc EXCEPT !.currentVertices = Append(@, vertex)], vertex)
        Vertex(parts) ==
            IF Len(parts) >= 4
            THEN PushVertex(<<parseFloat(parts[2]), parseFloat(parts[3]),
                              parseFloat(parts[4])>>)
            ELSE acc
        Line(trimmed) ==
            IF startsWith(trimmed, StrVertex)
            THEN Vertex(splitWhiteSpace(trimmed, 1))
            ELSE IF startsWith(trimmed, StrEndfacet)
            THEN Endfacet(acc)
            ELSE acc
    IN  Line(toLowerCase(trim(line)))

RECURSIVE AsciiLoop(_, _, _)
AsciiLoop(lines, k, acc) ==
    IF k > Len(lines) THEN acc
    ELSE AsciiLoop(lines, k + 1, AsciiLine(acc, lines[k]))

analyzeAsciiStl(buffer) ==
    LET Result(acc) == BuildAnalysis(acc, acc.triangleCount)
    IN  Result(AsciiLoop(splitChar(AsciiString(buffer), 10, 1), 1, InitialAccumulator))

----------------------------------------------------------------------------
(* StlParserService.analyzeStl *)

\* Mutant: the message is not recorded.
getDefaultAnalysisNoMessage(errorMessage) ==
    [kind |-> "FileAnalysis",
     volume |-> Whole(0),
     surfaceArea |-> Whole(0),
     boundingBox |-> [x |-> Whole(0), y |-> Whole(0), z |-> Whole(0)],
     triangleCount |-> 0,
     isWatertight |-> FALSE,
     hasErrors |-> TRUE,
     errors |-> <<>>]

getDefaultAnalysis(errorMessage) ==
    [kind |-> "FileAnalysis",
     volume |-> Whole(0),
     surfaceArea |-> Whole(0),
     boundingBox |-> [x |-> Whole(0), y |-> Whole(0), z |-> Whole(0)],
     triangleCount |-> 0,
     isWatertight |-> FALSE,
     hasErrors |-> TRUE,
     errors |-> <<errorMessage>>]

\* Mutant: no try/catch around the decoders.
analyzeStlNoCatch(buffer) ==
    IF isBinaryStl(buffer) THEN analyzeBinaryStl(buffer) ELSE analyzeAsciiStl(buffer)

\* try { ... } catch (error) { return this.getDefaultAnalysis(error.message) }
analyzeStl(buffer) ==
    LET Catch(outcome) ==
            IF outcome.kind = "Error" THEN getDefaultAnalysis(outcome.message)
            ELSE outcome
    IN  Catch(IF isBinaryStl(buffer) THEN analyzeBinaryStl(buffer)
              ELSE analyzeAsciiStl(buffer))

----------------------------------------------------------------------------
(* STL files: how the uploaded buffers of the model are laid out.  A source *)
(* describes a file (its format, the facets written into it, the count its  *)
(* binary header declares, how many bytes were cut off its end); FileBytes  *)
(* renders it to the bytes analyzeStl receives.                             *)

Vtx(x, y, z) == <<Whole(x), Whole(y), Whole(z)>>
Tri(a, b, c) == <<a, b, c>>

Zeros(k) == [i \in 1..k |-> 0]

RECURSIVE Concat(_)
Concat(seqs) == IF seqs = <<>> THEN <<>> ELSE Head(seqs) \o Concat(Tail(seqs))

\* floor(log2(n / d)) for n, d > 0
RECURSIVE Log2Floor(_, _)
Log2Floor(n, d) ==
    IF n >= 2 * d THEN 1 + Log2Floor(n, 2 * d)
    ELSE IF n < d THEN Log2Floor(2 * n, d) - 1
    ELSE 0

\* The four bytes buffer.writeFloatLE stores for x (x exactly a binary32).
FloatLE(x) ==
    IF x = NaN THEN <<0, 0, 192, 127>>
    ELSE IF x = PosInf THEN <<0, 0, 128, 127>>
    ELSE IF x = NegInf THEN <<0, 0, 128, 255>>
    ELSE IF x.n = 0 THEN <<0, 0, 0, 0>>
    ELSE LET e == Log2Floor(AbsInt(x.n), x.d)
             significand == (AbsInt(x.n) * Pow2(23 - e)) \div x.d
             fraction == significand - 8388608
             exponent == e + 127
         IN  <<fraction % 256,
               (fraction \div 256) % 256,
               (exponent % 2) * 128 + (fraction \div 65536),
               (IF x.n < 0 THEN 128 ELSE 0) + (exponent \div 2)>>

UInt32LE(k) ==
    <<k % 256, (k \div 256) % 256, (k \div 65536) % 256, k \div 16777216>>

\* One 50-byte record: normal, three vertices, attribute byte count.
BinaryRecord(facet) ==
    Zeros(12)
        \o Concat([v \in 1..3 |->
               FloatLE(facet[v][1]) \o FloatLE(facet[v][2]) \o FloatLE(facet[v][3])])
        \o Zeros(2)

BinaryBytes(src) ==
    LET whole == src.header \o Zeros(80 - Len(src.header)) \o UInt32LE(src.declared)
                     \o Concat([k \in 1..Len(src.facets) |-> BinaryRecord(src.facets[k])])
    IN  SubSeq(whole, 1, Len(whole) - src.cut)

RECURSIVE Digits(_)
Digits(k) == IF k < 10 THEN <<48 + k>> ELSE Digits(k \div 10) \o <<48 + (k % 10)>>

\* The token written for a coordinate: "abc" for a value that is no number,
\* otherwise its decimal digits, in the "upper" style with an E1 exponent
\* when it is a multiple of 10.
Token(x, style) ==
    IF x.d = 0 THEN <<97, 98, 99>>
    ELSE (IF x.n < 0 THEN <<45>> ELSE <<>>)
         \o (IF x.d = 2 THEN Digits(AbsInt(x.n) \div 2) \o <<46, 53>>
             ELSE IF style = "upper" /\ x.n # 0 /\ x.n % 10 = 0
             THEN Digits(AbsInt(x.n) \div 10) \o <<69, 49>>
             ELSE Digits(AbsInt(x.n)))

\* "vertex x y z" / "\tVERTEX  x y z\r", one token for each coordinate given.
VertexLine(vertex, style) ==
    (IF style = "upper" THEN <<9, 86, 69, 82, 84, 69, 88, 32>> ELSE <<32, 32>> \o StrVertex)
        \o Concat([k \in 1..Len(vertex) |-> <<32>> \o Token(vertex[k], style)])
        \o (IF style = "upper" THEN <<13, 10>> ELSE <<10>>)

\* "facet" / vertex lines / "endfacet"
AsciiFacet(facet, style) ==
    (IF style = "upper" THEN <<70, 65, 67, 69, 84, 13, 10>>
     ELSE <<102, 97, 99, 101, 116, 10>>)
        \o Concat([v \in 1..Len(facet) |-> VertexLine(facet[v], style)])
        \o (IF style = "upper" THEN <<69, 78, 68, 70, 65, 67, 69, 84, 13, 10>>
            ELSE StrEndfacet \o <<10>>)

AsciiBytes(src) ==
    LET whole == src.header \o <<10>>
                     \o Concat([k \in 1..Len(src.facets) |->
                            AsciiFacet(src.facets[k], src.style)])
    IN  SubSeq(whole, 1, Len(whole) - src.cut)

FileBytes(src) == IF src.format = "binary" THEN BinaryBytes(src) ELSE AsciiBytes(src)

Binary(facets, declared, cut) ==
    [format |-> "binary", header |-> <<>>, style |-> "plain", facets |-> facets,
     declared |-> declared, cut |-> cut]

Ascii(facets, style, cut) ==
    [format |-> "ascii",
     header |-> IF style = "upper" THEN <<83, 79, 76, 73, 68>> ELSE StrSolid,
     style |-> style, facets |-> facets, declared |-> 0, cut |-> cut]

\* A 10 mm cube with a corner at (ox, oy, oz), every face wound outwards.
Cube(ox, oy, oz) ==
    LET Pt(x, y, z) == Vtx(ox + x, oy + y, oz + z)
    IN  <<Tri(Pt(0, 0, 0), Pt(0, 10, 10), Pt(0, 10, 0)),
          Tri(Pt(0, 0, 0), Pt(0, 0, 10), Pt(0, 10, 10)),
          Tri(Pt(10, 0, 0), Pt(10, 10, 0), Pt(10, 10, 10)),
          Tri(Pt(10, 0, 0), Pt(10, 10, 10), Pt(10, 0, 10)),
          Tri(Pt(0, 0, 0), Pt(10, 0, 0), Pt(10, 0, 10)),
          Tri(Pt(0, 0, 0), Pt(10, 0, 10), Pt(0, 0, 10)),
          Tri(Pt(0, 10, 0), Pt(10, 10, 10), Pt(10, 10, 0)),
          Tri(Pt(0, 10, 0), Pt(0, 10, 10), Pt(10, 10, 10)),
          Tri(Pt(0, 0, 0), Pt(10, 10, 0), Pt(10, 0, 0)),
          Tri(Pt(0, 0, 0), Pt(0, 10, 0), Pt(10, 10, 0)),
          Tri(Pt(0, 0, 10), Pt(10, 0, 10), Pt(10, 10, 10)),
          Tri(Pt(0, 0, 10), Pt(10, 10, 10), Pt(0, 10, 10))>>

\* A tetrahedron with its right-angled corner at (1, 1, 1), wound outwards.
Tetrahedron ==
    <<Tri(Vtx(1, 1, 1), Vtx(1, 11, 1), Vtx(11, 1, 1)),
      Tri(Vtx(1, 1, 1), Vtx(11, 1, 1), Vtx(1, 1, 11)),
      Tri(Vtx(1, 1, 1), Vtx(1, 1, 11), Vtx(1, 11, 1)),
      Tri(Vtx(11, 1, 1), Vtx(1, 11, 1), Vtx(1, 1, 11))>>

\* A facet with its vertices i and j exchanged.
SwapVertices(facet, i, j) ==
    [k \in 1..Len(facet) |-> IF k = i THEN facet[j] ELSE IF k = j THEN facet[i]
                             ELSE facet[k]]

\* The mesh with the winding of every triangle reversed.
Reversed(facets, i, j) == [k \in 1..Len(facets) |-> SwapVertices(facets[k], i, j)]

SingleTriangle == <<Tri(Vtx(10, 0, 0), Vtx(0, 10, 0), Vtx(0, 0, 10))>>
HalfTriangle == <<Tri(<<Num(1, 2), Whole(0), Whole(0)>>, Vtx(0, 3, 0), Vtx(0, 0, 4))>>
FlatTriangle == <<Tri(Vtx(0, 0, 0), Vtx(4, 0, 0), Vtx(0, 3, 0))>>
NaNTriangle == <<Tri(<<NaN, Whole(0), Whole(0)>>, Vtx(0, 10, 0), Vtx(0, 0, 10))>>
InfTriangle == <<Tri(<<PosInf, Whole(1), Whole(1)>>, Vtx(0, 10, 0), Vtx(0, 0, 10))>>
TwoVertexFacet == <<Vtx(1, 1, 1), Vtx(11, 1, 1)>>
FourVertexFacet == <<Vtx(1, 1, 1), Vtx(11, 1, 1), Vtx(1, 11, 1), Vtx(1, 1, 11)>>
\* Three vertex lines and one that gives only two coordinates.
ShortLineFacet == <<Vtx(10, 0, 0), <<Whole(5), Whole(5)>>, Vtx(0, 10, 0), Vtx(0, 0, 10)>>
\* "solid" with the high bit of every byte set.
HighBitSolid == <<243, 239, 236, 233, 228>>

StlSources ==
    { Binary(Cube(0, 0, 0), 12, 0),
      Binary(Reversed(Cube(0, 0, 0), 2, 3), 12, 0),
      Binary(Cube(-5, -5, -5), 12, 0),
      Binary(Cube(0, 0, 0), 12, 1),
      Binary(Tetrahedron, 4, 0),
      Binary(Reversed(Tetrahedron, 2, 3), 4, 0),
      Binary(Reversed(Tetrahedron, 1, 2), 4, 0),
      Binary(Reversed(Tetrahedron, 1, 3), 4, 0),
      Binary(Tetrahedron, 3, 0),
      Binary(Tetrahedron, 5, 0),
      Binary(Tetrahedron, 4, 50),
      Binary(Tetrahedron, 260, 0),
      Binary(<<>>, 0, 0),
      Binary(<<>>, 0, 1),
      Binary(<<>>, 0, 80),
      Binary(<<>>, 0, 84),
      Binary(<<>>, 1, 0),
      Binary(SingleTriangle, 1, 0),
      Binary(Reversed(SingleTriangle, 1, 2), 1, 0),
      Binary(HalfTriangle, 1, 0),
      Binary(FlatTriangle, 1, 0),
      Binary(NaNTriangle, 1, 0),
      Binary(InfTriangle, 1, 0),
      Binary(Reversed(InfTriangle, 2, 3), 1, 0),
      Ascii(Tetrahedron, "plain", 0),
      Ascii(Reversed(Tetrahedron, 2, 3), "plain", 0),
      Ascii(Tetrahedron, "upper", 0),
      Ascii(<<>>, "plain", 0),
      Ascii(<<>>, "upper", 1),
      Ascii(SingleTriangle, "upper", 0),
      Ascii(HalfTriangle, "plain", 0),
      Ascii(FlatTriangle, "plain", 0),
      Ascii(NaNTriangle, "plain", 0),
      Ascii(<<TwoVertexFacet>> \o SingleTriangle, "plain", 0),
      Ascii(SingleTriangle \o <<FourVertexFacet>>, "plain", 0),
      Ascii(<<FourVertexFacet>> \o SingleTriangle, "plain", 0),
      Ascii(<<ShortLineFacet>>, "plain", 0),
      Ascii(SingleTriangle \o SingleTriangle, "plain", 5),
      Ascii(<<>>, "plain", 2),
      [Ascii(SingleTriangle, "plain", 0) EXCEPT !.header = HighBitSolid] }

\* The uploads of the model, each with the analysis analyzeStl returns for it.
StlFiles ==
    { [source |-> src, buffer |-> FileBytes(src), analysis |-> analyzeStl(FileBytes(src))] :
          src \in StlSources }

----------------------------------------------------------------------------
(* The upload model: analyzeStl called on one uploaded buffer after another *)

MaxUploads == 2

InitStl ==
    /\ uploads = <<>>
    /\ analyses = <<>>
    /\ quoteInput = NoValue
    /\ pricing = NoValue
    /\ InitRepositories

\* Mutant: the triangle counter is a field of the service and is never reset.
AnalyzeFromKeepsCount(stlFiles, maxCalls) ==
    /\ Len(uploads) < maxCalls
    /\ \E file \in stlFiles :
           /\ uploads' = Append(uploads, [source |-> file.source, buffer |-> file.buffer])
           /\ analyses' = Append(analyses,
                  [file.analysis EXCEPT !.triangleCount =
                      @ + (IF analyses = <<>> THEN 0
                           ELSE analyses[Len(analyses)].triangleCount)])
    /\ UNCHANGED <<quoteVars, repoVars, storeVars>>

\* One analyzeStl call on one of the given files, while fewer than maxCalls
\* have been made.
AnalyzeFrom(stlFiles, maxCalls) ==
    /\ Len(uploads) < maxCalls
    /\ \E file \in stlFiles :
           /\ uploads' = Append(uploads, [source |-> file.source, buffer |-> file.buffer])
           /\ analyses' = Append(analyses, file.analysis)
    /\ UNCHANGED <<quoteVars, repoVars, storeVars>>

AnalyzeStl == AnalyzeFrom(StlFiles, MaxUploads)

NextStl == AnalyzeStl

SpecStl == InitStl /\ [][NextStl]_vars

----------------------------------------------------------------------------
(* The repeated-analysis model: longer runs of analyzeStl calls on a few    *)
(* files, any of them more than once                                        *)

MaxRepeats == 3

RepeatSources ==
    { Binary(Tetrahedron, 4, 0),
      Binary(NaNTriangle, 1, 0),
      Binary(<<>>, 0, 84),
      Ascii(SingleTriangle, "upper", 0),
      Ascii(<<>>, "plain", 0) }

RepeatFiles == {file \in StlFiles : file.source \in RepeatSources}

AnalyzeRepeatedly == AnalyzeFrom(RepeatFiles, MaxRepeats)

NextRepeat == AnalyzeRepeatedly

SpecRepeat == InitStl /\ [][NextRepeat]_vars

----------------------------------------------------------------------------
(* FilesService.uploadFile.  Strings that the code takes apart (file names, *)
(* extensions) are sequences of character codes.                            *)

\* null, and undefined where the code does not tell them apart.
Null == [kind |-> "null"]

\* An array held by a property that may also be undefined.
Array(items) == [kind |-> "array", items |-> items]

\* this.configService.get('MAX_FILE_SIZE') || 52428800
maxFileSize == 52428800

ExtStl == <<46, 115, 116, 108>>
ExtObj == <<46, 111, 98, 106>>
\* ['.stl', '.obj', '.3mf', '.step', '.stp']
ALLOWED_EXTENSIONS ==
    {ExtStl, ExtObj, <<46, 51, 109, 102>>, <<46, 115, 116, 101, 112>>,
     <<46, 115, 116, 112>>}

\* path.extname: from the last "." of the last path segment to the end, and
\* empty when there is none or when it is the segment's first character.
extname(name) ==
    LET Of(base) ==
            LET Dots(dots) ==
                    IF dots = {} \/ Maximum(dots) = 1 THEN <<>>
                    ELSE SubSeq(base, Maximum(dots), Len(base))
            IN  Dots({k \in 1..Len(base) : base[k] = 46})
        After(slashes) ==
            IF slashes = {} THEN Of(name)
            ELSE Of(SubSeq(name, Maximum(slashes) + 1, Len(name)))
    IN  After({k \in 1..Len(name) : name[k] = 47})

\* validateFile: the exception it throws, Null when it returns.
validateFile(uploadedFile) ==
    IF uploadedFile.size > maxFileSize
    THEN Throw("File size exceeds maximum allowed size")
    ELSE IF toLowerCase(extname(uploadedFile.originalname)) \notin ALLOWED_EXTENSIONS
    THEN Throw("File type not allowed")
    ELSE Null

\* A string built at run time, as the pieces it is concatenated from; the
\* empty string has none.
Text(pieces) == [kind |-> "string", pieces |-> pieces]

\* errors.join(', ')
RECURSIVE join(_)
join(errors) ==
    IF Len(errors) = 0 THEN <<>>
    ELSE IF Len(errors) = 1 THEN <<errors[1]>>
    ELSE <<errors[1], ", ">> \o join(Tail(errors))

\* analysis.errors?.join(', ') || 'Unknown error'
ErrorMessageOf(analysis) ==
    LET Or(pieces) ==
            IF \A k \in DOMAIN pieces : pieces[k] = "" THEN Text(<<"Unknown error">>)
            ELSE Text(pieces)
    IN  Or(IF "errors" \in DOMAIN analysis THEN join(analysis.errors) ELSE <<>>)

\* Mutant: the file is ready whatever the analysis says.
RecordAnalysisAlwaysReady(file, analysis) ==
    [file EXCEPT !.analysis = analysis, !.status = "ready"]

\* file.analysis = analysis; if (analysis.hasErrors) ... else ...
RecordAnalysis(file, analysis) ==
    IF analysis.hasErrors
    THEN [file EXCEPT !.analysis = analysis, !.status = "error",
                      !.errorMessage = ErrorMessageOf(analysis)]
    ELSE [file EXCEPT !.analysis = analysis, !.status = "ready"]

\* The default analysis values given to the other file types.
PlaceholderAnalysis ==
    [kind |-> "FileAnalysis",
     volume |-> Whole(100),
     surfaceArea |-> Whole(200),
     boundingBox |-> [x |-> Whole(10), y |-> Whole(10), z |-> Whole(10)],
     triangleCount |-> 0,
     isWatertight |-> TRUE,
     hasErrors |-> FALSE]

\* Mutant: every file type is handed to the STL parser.
AnalyzeFileAsStl(file, ext, buffer, stlParser) ==
    RecordAnalysis(file, stlParser[buffer])

\* if (ext === '.stl') ... else ...
AnalyzeFile(file, ext, buffer, stlParser) ==
    IF ext = ExtStl THEN RecordAnalysis(file, stlParser[buffer])
    ELSE [file EXCEPT !.analysis = PlaceholderAnalysis, !.status = "ready"]

mapFileToResponse(file) ==
    [id |-> file.id, originalName |-> file.originalName, filename |-> file.filename,
     size |-> file.size, status |-> file.status, analysis |-> file.analysis]

\* uploadFile for the row id the repository assigns: the rows it saves, in
\* order, and what the caller gets.  storage.error is Null when
\* storageService.save resolves and the error it rejects with otherwise.
uploadFile(userId, uploadedFile, id, storage, stlParser) ==
    LET ext == toLowerCase(extname(uploadedFile.originalname))
        created == [id |-> id, userId |-> userId,
                    originalName |-> uploadedFile.originalname,
                    filename |-> [uuid |-> id, ext |-> ext],
                    size |-> uploadedFile.size,
                    storagePath |-> <<>>,
                    status |-> "uploading",
                    analysis |-> Null,
                    errorMessage |-> Null]
        Stored(processing) ==
            LET Done(file) ==
                    [saved |-> <<created, processing, file>>,
                     reply |-> [kind |-> "returned", value |-> mapFileToResponse(file)]]
            IN  Done(AnalyzeFile(processing, ext, uploadedFile.buffer, stlParser))
        Checked(invalid) ==
            IF invalid # Null
            THEN [saved |-> <<>>,
                  reply |-> [kind |-> "thrown", error |-> "BadRequestException",
                             message |-> invalid.message]]
            ELSE IF storage.error # Null
            THEN [saved |-> <<created,
                              [created EXCEPT !.status = "error",
                                              !.errorMessage =
                                                  Text(<<storage.error.message>>)]>>,
                  reply |-> [kind |-> "thrown", error |-> "BadRequestException",
                             message |-> storage.error.message]]
            ELSE Stored([created EXCEPT !.storagePath = <<"uploads", id, ext>>,
                                        !.status = "processing"])
    IN  Checked(validateFile(uploadedFile))

----------------------------------------------------------------------------
(* The upload model: uploadFile called on one file after another *)

MaxFiles == 2

Users == {"u1", "u2"}

\* "a.stl", "A.STL", "a.obj", "a.exe"
FileNames ==
    { <<97>> \o ExtStl, <<65, 46, 83, 84, 76>>, <<97>> \o ExtObj,
      <<97, 46, 101, 120, 101>> }

\* The injected StlParserService, on the buffers of the model: a sound mesh,
\* a binary file shorter than its count says, a flat triangle.
StlParser ==
    [buffer \in {FileBytes(src) : src \in {Binary(Tetrahedron, 4, 0),
                                            Binary(Tetrahedron, 5, 0),
                                            Ascii(FlatTriangle, "plain", 0)}}
        |-> analyzeStl(buffer)]

\* The multer files of the model: any name with any content, and one file
\* over the size limit.
UploadedFiles ==
    { [originalname |-> name, size |-> Len(buffer), buffer |-> buffer] :
          name \in FileNames, buffer \in DOMAIN StlParser }
    \cup { [originalname |-> <<97>> \o ExtStl, size |-> maxFileSize + 1,
            buffer |-> <<>>] }

\* storageService.save resolves, or rejects with the error of fs.writeFile.
StorageOutcomes == {[error |-> Null], [error |-> Throw("ENOSPC")]}

InitFiles ==
    /\ InitRepositories
    /\ quoteInput = NoValue
    /\ pricing = NoValue
    /\ uploads = <<>>
    /\ analyses = <<>>

UploadFile ==
    /\ Len(replies) < MaxFiles
    /\ \E userId \in Users, uploadedFile \in UploadedFiles, storage \in StorageOutcomes :
           LET Finish(call) ==
                   /\ files' = IF call.saved = <<>> THEN files
                                ELSE Append(files, call.saved[Len(call.saved)])
                   /\ replies' = Append(replies,
                          [call |-> "uploadFile", userId |-> userId,
                           uploadedFile |-> uploadedFile, storage |-> storage,
                           saved |-> call.saved, reply |-> call.reply])
           IN  Finish(uploadFile(userId, uploadedFile, Len(files) + 1, storage, StlParser))
    /\ UNCHANGED <<quoteVars, stlVars, quotes, request, storeVars>>

NextFiles == UploadFile

SpecFiles == InitFiles /\ [][NextFiles]_vars

----------------------------------------------------------------------------
(* QuotesService: print time and delivery estimates *)

\* Math.ceil
MathCeil(a) == IF a.d = 0 THEN a ELSE Whole(-((-a.n) \div a.d))

\* Math.round(x * 10) / 10
Round1(x) == Div(MathRound(Mul(x, Whole(10))), Whole(10))

\* Mutant: the layer factor inverted (thicker layers take longer).
calculatePrintTimeThickerSlower(volumeCm3, config) ==
    Round1(Mul(Mul(Mul(Mul(Div(volumeCm3, Whole(BASE_PRINT_SPEED)),
                           Div(config.layerHeight, Num(2, 10))),
                       Div(config.infillPercentage, Whole(20))),
                   IF config.supportStructures THEN Num(13, 10) ELSE Whole(1)),
               config.quantity))

\* baseTime * layerFactor * infillFactor * supportFactor * config.quantity,
\* rounded to one decimal
calculatePrintTime(volumeCm3, config) ==
    Round1(Mul(Mul(Mul(Mul(Div(volumeCm3, Whole(BASE_PRINT_SPEED)),
                           Div(Num(2, 10), config.layerHeight)),
                       Div(config.infillPercentage, Whole(20))),
                   IF config.supportStructures THEN Num(13, 10) ELSE Whole(1)),
               config.quantity))

\* The number a value is converted to by the operator +: null becomes 0.
NumberOf(value) == IF value = Null THEN Whole(0) ELSE value

\* Mutant: no shipping days.
calculateDeliveryDaysNoShipping(printTimeHours, materialLeadTime, config) ==
    Add(Add(NumberOf(materialLeadTime), MathCeil(Div(printTimeHours, Whole(8)))),
        IF Len(config.postProcessing) > 0 THEN Whole(1) ELSE Whole(0))

\* Mutant: the post-processing day charged when there is no post-processing.
calculateDeliveryDaysDayForNone(printTimeHours, materialLeadTime, config) ==
    Add(Add(Add(NumberOf(materialLeadTime), MathCeil(Div(printTimeHours, Whole(8)))),
            IF Len(config.postProcessing) > 0 THEN Whole(0) ELSE Whole(1)),
        Whole(2))

\* materialLeadTime + printDays + postProcessDays + shippingDays
calculateDeliveryDays(printTimeHours, materialLeadTime, config) ==
    Add(Add(Add(NumberOf(materialLeadTime), MathCeil(Div(printTimeHours, Whole(8)))),
            IF Len(config.postProcessing) > 0 THEN Whole(1) ELSE Whole(0)),
        Whole(2))

----------------------------------------------------------------------------
(* QuotesService.createQuote *)

\* A number written to a simple-json column and read back: JSON.stringify
\* writes NaN and the infinities as null.
JsonNumber(x) == IF x.d = 0 THEN Null ELSE x

\* File.analysis as read back from its simple-json column.
JsonAnalysis(analysis) ==
    IF analysis = Null THEN Null
    ELSE [analysis EXCEPT !.volume = JsonNumber(@),
                          !.surfaceArea = JsonNumber(@),
                          !.boundingBox = [x |-> JsonNumber(@.x), y |-> JsonNumber(@.y),
                                           z |-> JsonNumber(@.z)]]

\* file.analysis?.volume || 100
FileVolume(analysis) ==
    IF analysis = Null THEN Whole(100)
    ELSE IF analysis.volume = Null \/ analysis.volume = NaN \/ analysis.volume.n = 0
    THEN Whole(100)
    ELSE analysis.volume

\* Mutant: any colour is accepted.
includesAnything(array, element) == TRUE

\* Array.prototype.includes
includes(array, element) == \E k \in DOMAIN array : array[k] = element

\* createQuote on the rows the repositories hold: the quote it saves, if
\* any, and what the caller gets.  now is the hour of the call.  The messages of
\* the analysis error and of the colour error are kept without the values
\* they quote.
createQuote(userId, dto, now, fileRows, materialRows, id) ==
    LET Thrown(error, message) ==
            [saved |-> <<>>,
             reply |-> [kind |-> "thrown", error |-> error, message |-> message]]
        Saved(quote, fileVolume) ==
            [saved |-> <<quote>>, fileVolume |-> fileVolume,
             reply |-> [kind |-> "returned", value |-> quote]]
        Estimated(fileVolume, material, configuration, hours) ==
            Saved([id |-> id, userId |-> userId, fileId |-> dto.fileId,
                   materialId |-> dto.materialId,
                   configuration |-> configuration,
                   pricing |-> calculatePricing(fileVolume, material, configuration),
                   estimatedPrintTimeHours |-> hours,
                   estimatedDeliveryDays |->
                       calculateDeliveryDays(hours, material.leadTimeDays, configuration),
                   status |-> "active",
                   expiresAt |-> now + 7 * 24],
                  fileVolume)
        Configured(fileVolume, material, configuration) ==
            Estimated(fileVolume, material, configuration,
                      calculatePrintTime(fileVolume, configuration))
        WithMaterial(fileVolume, material) ==
            IF ~includes(material.properties.colorOptions, dto.color)
            THEN Thrown("BadRequestException", "Color is not available for this material")
            ELSE Configured(fileVolume, material,
                     [quantity |-> dto.quantity, color |-> dto.color,
                      infillPercentage |-> dto.infillPercentage,
                      layerHeight |-> dto.layerHeight,
                      supportStructures |-> dto.supportStructures,
                      postProcessing |-> IF dto.postProcessing = Null THEN <<>>
                                         ELSE dto.postProcessing.items])
        WithAnalysis(analysis) ==
            IF analysis # Null /\ analysis.hasErrors
            THEN Thrown("BadRequestException", "File analysis has errors")
            ELSE IF dto.materialId \notin DOMAIN materialRows
            THEN Thrown("NotFoundException", "Material not found")
            ELSE WithMaterial(FileVolume(analysis), materialRows[dto.materialId])
    IN  IF dto.fileId \notin DOMAIN fileRows
        THEN Thrown("NotFoundException", "File not found")
        ELSE IF fileRows[dto.fileId].userId # userId
        THEN Thrown("NotFoundException", "File not found")
        ELSE IF fileRows[dto.fileId].status # "ready"
        THEN Thrown("BadRequestException", "File is not ready for quoting")
        ELSE WithAnalysis(JsonAnalysis(fileRows[dto.fileId].analysis))

----------------------------------------------------------------------------
(* The quote-creation model: one createQuote call on a chosen request, with *)
(* files already uploaded and a catalog of materials                         *)

\* PLA and Standard Resin of seedDefaultMaterials, and a material an admin
\* created with one colour and without a lead time.
MaterialRows ==
    << [pricing |-> [basePrice |-> Num(1, 2), setupFee |-> Whole(10),
                     minPrice |-> Whole(25), currency |-> "AED"],
        properties |-> [colorOptions |-> <<"White", "Black", "Red", "Blue", "Green",
                                           "Yellow", "Orange", "Gray">>],
        leadTimeDays |-> Whole(3)],
       [pricing |-> [basePrice |-> Num(12, 10), setupFee |-> Whole(15),
                     minPrice |-> Whole(40), currency |-> "AED"],
        properties |-> [colorOptions |-> <<"White", "Black", "Gray", "Clear">>],
        leadTimeDays |-> Whole(4)],
       [pricing |-> [basePrice |-> Num(333, 1000), setupFee |-> Num(10005, 1000),
                     minPrice |-> Whole(0), currency |-> ""],
        properties |-> [colorOptions |-> <<"white">>],
        leadTimeDays |-> Null] >>

\* The rows earlier uploads left in fileRepository: of user u1 a sound
\* .stl mesh, an .obj file, an .stl file the parser rejected, a flat .stl
\* mesh (volume 0) and a file the storage rejected; of user u2 a sound mesh.
UploadedRows ==
    LET uploaded ==
            << <<"u1", ExtStl, Binary(Tetrahedron, 4, 0), [error |-> Null]>>,
               <<"u1", ExtObj, Binary(Tetrahedron, 5, 0), [error |-> Null]>>,
               <<"u1", ExtStl, Binary(Tetrahedron, 5, 0), [error |-> Null]>>,
               <<"u1", ExtStl, Ascii(FlatTriangle, "plain", 0), [error |-> Null]>>,
               <<"u1", ExtStl, Binary(Tetrahedron, 4, 0), [error |-> Throw("ENOSPC")]>>,
               <<"u2", ExtStl, Binary(Tetrahedron, 4, 0), [error |-> Null]>> >>
        Kept(saved) == saved[Len(saved)]
        Row(id, userId, ext, buffer, storage) ==
            Kept(uploadFile(userId,
                            [originalname |-> <<97>> \o ext,
                             size |-> Len(buffer), buffer |-> buffer],
                            id, storage, StlParser).saved)
    IN  [id \in 1..6 |->
            Row(id, uploaded[id][1], uploaded[id][2], FileBytes(uploaded[id][3]),
                uploaded[id][4])]

\* CreateQuoteDto: quantity 1..1000, infillPercentage 10..100, layerHeight
\* 0.05..0.5, postProcessing optional; fileId and materialId of the six
\* files and three materials, and one of each without a row.
CreateRequests ==
    [userId : {"u1"},
     now : {0},
     dto : [fileId : 1..7,
            materialId : 1..4,
            color : {"White", "Clear", "white"},
            quantity : {Whole(1), Whole(3), Whole(1000)},
            infillPercentage : {Whole(10), Whole(20), Whole(100)},
            layerHeight : {Num(5, 100), Num(2, 10), Num(3, 10), Num(5, 10)},
            supportStructures : BOOLEAN,
            postProcessing : {Null, Array(<<>>), Array(<<"sanding">>)}]]

InitCreate ==
    /\ files = UploadedRows
    /\ quotes = <<>>
    /\ request \in CreateRequests
    /\ replies = <<>>
    /\ quoteInput = NoValue
    /\ pricing = NoValue
    /\ uploads = <<>>
    /\ analyses = <<>>
    /\ InitStore

CreateQuote ==
    /\ replies = <<>>
    /\ LET Finish(call) ==
               /\ quotes' = quotes \o call.saved
               /\ replies' = Append(replies,
                      [call |-> "createQuote", saved |-> call.saved,
                       fileVolume |-> IF call.saved = <<>> THEN Null ELSE call.fileVolume,
                       reply |-> call.reply])
       IN  Finish(createQuote(request.userId, request.dto, request.now, files,
                              MaterialRows, Len(quotes) + 1))
    /\ UNCHANGED <<quoteVars, stlVars, files, request, storeVars>>

NextCreate == CreateQuote

SpecCreate == InitCreate /\ [][NextCreate]_vars

----------------------------------------------------------------------------
(* Quotes after their creation, the cart (CartService) and createOrder     *)
(* (OrdersService).  The rows of cart_items carry the user of their cart   *)
(* as cartId: a user has one cart.                                          *)

\* A Date value.
Date(time) == [kind |-> "Date", time |-> time]

\* getQuoteById, getUserQuotes: an active quote read after its expiresAt
\* is saved as expired.
expireIfPast(quote, now) ==
    IF quote.status = "active" /\ now > quote.expiresAt
    THEN [quote EXCEPT !.status = "expired"]
    ELSE quote

\* Mutant: the update row of markAsOrdered also resets the expiry.
markAsOrderedClearsExpiry(quoteRows, quoteId) ==
    IF quoteId \in DOMAIN quoteRows
    THEN [quoteRows EXCEPT ![quoteId].status = "ordered", ![quoteId].expiresAt = 0]
    ELSE quoteRows

\* quoteRepository.update(quoteId, { status: QuoteStatus.ORDERED })
markAsOrdered(quoteRows, quoteId) ==
    IF quoteId \in DOMAIN quoteRows
    THEN [quoteRows EXCEPT ![quoteId].status = "ordered"]
    ELSE quoteRows

\* The items of the cart of a user among the rows of cart_items.
ItemsOf(rows, userId) ==
    LET Mine(item) == item.cartId = userId
    IN  SelectSeq(rows, Mine)

\* CartService.mapToResponse
RECURSIVE mapCartToResponse(_, _, _)
mapCartToResponse(items, mapped, subtotal) ==
    IF items = <<>>
    THEN [items |-> mapped, itemCount |-> Len(mapped), subtotal |-> Round2(subtotal),
          currency |-> "AED"]
    ELSE mapCartToResponse(Tail(items),
             Append(mapped,
                 [id |-> Head(items).id, quoteId |-> Head(items).quoteId,
                  unitPrice |-> Head(items).unitPrice,
                  quantity |-> Head(items).quantity,
                  totalPrice |-> Head(items).totalPrice,
                  notes |-> Head(items).notes]),
             Add(subtotal, Head(items).totalPrice))

\* Mutant: a quote already in the cart gets a second item.
addToItemsAlwaysNew(rows, userId, dto, quote, id) ==
    Append(rows,
           [id |-> id, cartId |-> userId, quoteId |-> dto.quoteId,
            unitPrice |-> quote.pricing.total,
            quantity |-> IF dto.quantity = Null THEN Whole(1) ELSE dto.quantity,
            totalPrice |-> Mul(quote.pricing.total,
                               IF dto.quantity = Null THEN Whole(1) ELSE dto.quantity),
            notes |-> dto.notes])

\* addItem after its checks: the item of the quote gets the quantity added,
\* or a new item is saved.
addToItems(rows, userId, dto, quote, id) ==
    LET Existing == {i \in DOMAIN rows : rows[i].cartId = userId
                                         /\ rows[i].quoteId = dto.quoteId}
        Quantity == IF dto.quantity = Null THEN Whole(1) ELSE dto.quantity
        Updated(i, quantity) ==
            [rows EXCEPT ![i].quantity = quantity,
                         ![i].totalPrice = Mul(rows[i].unitPrice, quantity),
                         ![i].notes = IF dto.notes # Null THEN dto.notes ELSE @]
        Created(unitPrice) ==
            Append(rows,
                   [id |-> id, cartId |-> userId, quoteId |-> dto.quoteId,
                    unitPrice |-> unitPrice, quantity |-> Quantity,
                    totalPrice |-> Mul(unitPrice, Quantity), notes |-> dto.notes])
    IN  IF Existing # {}
        THEN Updated(Minimum(Existing), Add(rows[Minimum(Existing)].quantity, Quantity))
        ELSE Created(quote.pricing.total)

MaxQuotes == 2
MaxItems == 2
MaxCartQuantity == 3
MaxOrders == 1

\* The user whose cart and orders are followed; quotes are made for every
\* user.
Shoppers == {"u1"}

\* The instants at which requests arrive: a quote made at 0 expires at 168.
Instants == {0, 168, 169}

\* createQuote requests of the two users on their sound files.
ShopRequests ==
    LET Dto(fileId, quantity) ==
            [fileId |-> fileId, materialId |-> 1, color |-> "White",
             quantity |-> Whole(quantity), infillPercentage |-> Whole(20),
             layerHeight |-> Num(2, 10), supportStructures |-> FALSE,
             postProcessing |-> Null]
    IN  { [userId |-> "u1", dto |-> Dto(1, 3)],
          [userId |-> "u2", dto |-> Dto(6, 1)] }

InitShop ==
    /\ files = UploadedRows
    /\ quotes = <<>>
    /\ request = NoValue
    /\ replies = <<>>
    /\ quoteInput = NoValue
    /\ pricing = NoValue
    /\ uploads = <<>>
    /\ analyses = <<>>
    /\ InitStore

\* What the last handler left for its caller: an exception or a value.
Throws(call, error, message) ==
    <<[call |-> call,
       reply |-> [kind |-> "thrown", error |-> error, message |-> message]]>>

Returns(call, value) ==
    <<[call |-> call, reply |-> [kind |-> "returned", value |-> value]]>>

RequestQuote ==
    /\ Len(quotes) < MaxQuotes
    /\ \E req \in ShopRequests :
           LET Finish(call) ==
                   /\ quotes' = quotes \o call.saved
                   /\ replies' = <<[call |-> "createQuote", reply |-> call.reply]>>
           IN  Finish(createQuote(req.userId, req.dto, clock, files, MaterialRows,
                                  Len(quotes) + 1))
    /\ UNCHANGED <<quoteVars, stlVars, files, request, storeVars>>

GetQuoteById ==
    /\ \E quoteId \in 1..(MaxQuotes + 1), userId \in Users :
           IF quoteId \in DOMAIN quotes /\ quotes[quoteId].userId = userId
           THEN /\ quotes' = [quotes EXCEPT ![quoteId] = expireIfPast(@, clock)]
                /\ replies' = Returns("getQuoteById", expireIfPast(quotes[quoteId], clock))
           ELSE /\ replies' = Throws("getQuoteById", "NotFoundException", "Quote not found")
                /\ UNCHANGED quotes
    /\ UNCHANGED <<quoteVars, stlVars, files, request, storeVars>>

GetUserQuotes ==
    /\ \E userId \in Users :
           LET Read(rows) ==
                   /\ quotes' = rows
                   /\ replies' = Returns("getUserQuotes",
                          LET Asked(quote) == quote.userId = userId
                          IN  SelectSeq(rows, Asked))
           IN  Read([q \in DOMAIN quotes |->
                        IF quotes[q].userId = userId THEN expireIfPast(quotes[q], clock)
                        ELSE quotes[q]])
    /\ UNCHANGED <<quoteVars, stlVars, files, request, storeVars>>

AddToCartDtos ==
    [quoteId : 1..(MaxQuotes + 1), quantity : {Null, Whole(2)},
     notes : {Null, Text(<<"gift">>)}]

AddItem ==
    /\ \E userId \in Shoppers, dto \in AddToCartDtos :
           IF dto.quoteId \notin DOMAIN quotes
           THEN /\ replies' = Throws("addItem", "NotFoundException", "Quote not found")
                /\ UNCHANGED cart
           ELSE IF quotes[dto.quoteId].userId # userId
           THEN /\ replies' = Throws("addItem", "NotFoundException", "Quote not found")
                /\ UNCHANGED cart
           ELSE IF quotes[dto.quoteId].status # "active"
           THEN /\ replies' = Throws("addItem", "BadRequestException",
                                     "Quote is not active or has expired")
                /\ UNCHANGED cart
           ELSE IF clock > quotes[dto.quoteId].expiresAt
           THEN /\ replies' = Throws("addItem", "BadRequestException", "Quote has expired")
                /\ UNCHANGED cart
           ELSE LET Save(rows) ==
                        /\ Len(rows) > Len(cart.items) => cart.issued < MaxItems
                        /\ \A i \in DOMAIN rows :
                               ~Gt(rows[i].quantity, Whole(MaxCartQuantity))
                        /\ cart' = [items |-> rows,
                                    issued |-> IF Len(rows) > Len(cart.items)
                                               THEN cart.issued + 1 ELSE cart.issued]
                        /\ replies' = Returns("addItem",
                               mapCartToResponse(ItemsOf(rows, userId), <<>>, Whole(0)))
                IN  Save(addToItems(cart.items, userId, dto, quotes[dto.quoteId],
                                    cart.issued + 1))
    /\ UNCHANGED <<quoteVars, stlVars, files, quotes, request, clock, orders, payments,
                   users, refreshTokens, calls, addresses>>

UpdateCartItemDtos == [quantity : {Null, Whole(3)}, notes : {Null, Text(<<"gift">>)}]

UpdateItem ==
    /\ \E userId \in Shoppers, itemId \in 1..MaxItems, dto \in UpdateCartItemDtos :
           LET Found(hits) ==
                   IF hits = {}
                   THEN /\ replies' = Throws("updateItem", "NotFoundException",
                                             "Cart item not found")
                        /\ UNCHANGED cart
                   ELSE LET Save(rows) ==
                                /\ cart' = [cart EXCEPT !.items = rows]
                                /\ replies' = Returns("updateItem",
                                       mapCartToResponse(ItemsOf(rows, userId), <<>>,
                                                         Whole(0)))
                        IN  Save([cart.items EXCEPT
                                     ![Minimum(hits)] =
                                         [@ EXCEPT
                                            !.quantity = IF dto.quantity # Null
                                                         THEN dto.quantity ELSE @,
                                            !.totalPrice = IF dto.quantity # Null
                                                           THEN Mul(cart.items[Minimum(hits)].unitPrice,
                                                                    dto.quantity)
                                                           ELSE @,
                                            !.notes = IF dto.notes # Null
                                                      THEN dto.notes ELSE @]])
           IN  Found({i \in DOMAIN cart.items : cart.items[i].cartId = userId
                                                /\ cart.items[i].id = itemId})
    /\ UNCHANGED <<quoteVars, stlVars, files, quotes, request, clock, orders, payments,
                   users, refreshTokens, calls, addresses>>

RemoveItem ==
    /\ \E userId \in Shoppers, itemId \in 1..MaxItems :
           LET Kept(item) == ~(item.cartId = userId /\ item.id = itemId)
           IN  IF \A i \in DOMAIN cart.items : Kept(cart.items[i])
               THEN /\ replies' = Throws("removeItem", "NotFoundException",
                                         "Cart item not found")
                    /\ UNCHANGED cart
               ELSE /\ cart' = [cart EXCEPT !.items = SelectSeq(cart.items, Kept)]
                    /\ replies' = Returns("removeItem",
                           mapCartToResponse(ItemsOf(SelectSeq(cart.items, Kept), userId),
                                             <<>>, Whole(0)))
    /\ UNCHANGED <<quoteVars, stlVars, files, quotes, request, clock, orders, payments,
                   users, refreshTokens, calls, addresses>>

ClearCart ==
    /\ \E userId \in Shoppers :
           LET Others(item) == item.cartId # userId
           IN  /\ cart' = [cart EXCEPT !.items = SelectSeq(cart.items, Others)]
               /\ replies' = Returns("clearCart", mapCartToResponse(<<>>, <<>>, Whole(0)))
    /\ UNCHANGED <<quoteVars, stlVars, files, quotes, request, clock, orders, payments,
                   users, refreshTokens, calls, addresses>>

SHIPPING_COST == 25
TAX_RATE == Num(5, 100)

\* createOrder on a cart that is not empty: the loop over the items, the
\* order saved with its items and its first history row, the cart cleared.
CreateOrder ==
    /\ Len(orders) < MaxOrders
    /\ \E userId \in Shoppers :
           LET RECURSIVE Loop(_, _, _, _)
               Loop(items, orderItems, subtotal, quoteRows) ==
                   IF items = <<>>
                   THEN [orderItems |-> orderItems, subtotal |-> subtotal,
                         quotes |-> quoteRows]
                   ELSE Loop(Tail(items),
                             Append(orderItems,
                                 [quoteId |-> Head(items).quoteId,
                                  fileId |-> quoteRows[Head(items).quoteId].fileId,
                                  materialId |-> quoteRows[Head(items).quoteId].materialId,
                                  fileName |->
                                      files[quoteRows[Head(items).quoteId].fileId].originalName,
                                  configuration |->
                                      quoteRows[Head(items).quoteId].configuration,
                                  unitPrice |-> Head(items).unitPrice,
                                  quantity |-> Head(items).quantity,
                                  totalPrice |-> Head(items).totalPrice]),
                             Add(subtotal, Head(items).totalPrice),
                             markAsOrdered(quoteRows, Head(items).quoteId))
               Order(looped, taxAmount) ==
                   [id |-> Len(orders) + 1, userId |-> userId,
                    status |-> "pending_payment",
                    shippingAddress |-> [city |-> "Dubai", country |-> "AE"],
                    billingAddress |-> Null,
                    pricing |-> [subtotal |-> looped.subtotal,
                                 shippingCost |-> Whole(SHIPPING_COST),
                                 taxAmount |-> taxAmount, discount |-> Whole(0),
                                 total |-> Round2(Add(Add(looped.subtotal,
                                                          Whole(SHIPPING_COST)),
                                                      taxAmount)),
                                 currency |-> "AED"],
                    notes |-> Null, paymentIntentId |-> Null,
                    paidAt |-> Null, shippedAt |-> Null, deliveredAt |-> Null,
                    items |-> looped.orderItems,
                    history |-> <<[status |-> "pending_payment",
                                   comment |-> Text(<<"Order created">>),
                                   changedBy |-> Null]>>]
               Place(looped) ==
                   LET Others(item) == item.cartId # userId
                   IN  /\ quotes' = looped.quotes
                       /\ orders' = Append(orders,
                              Order(looped, Round2(Mul(looped.subtotal, TAX_RATE))))
                       /\ cart' = [cart EXCEPT !.items = SelectSeq(cart.items, Others)]
                       /\ replies' = Returns("createOrder",
                              Order(looped, Round2(Mul(looped.subtotal, TAX_RATE))))
           IN  IF ItemsOf(cart.items, userId) = <<>>
               THEN /\ replies' = Throws("createOrder", "BadRequestException",
                                         "Cart is empty")
                    /\ UNCHANGED <<quotes, orders, cart>>
               ELSE Place(Loop(ItemsOf(cart.items, userId), <<>>, Whole(0), quotes))
    /\ UNCHANGED <<quoteVars, stlVars, files, request, clock, payments, users,
                   refreshTokens, calls, addresses>>

\* Time passes between two requests.
PassTime ==
    /\ \E later \in Instants : later > clock /\ clock' = later
    /\ UNCHANGED <<quoteVars, stlVars, repoVars, cart, orders, payments, users,
                   refreshTokens, calls, addresses>>

NextShop ==
    \/ RequestQuote
    \/ GetQuoteById
    \/ GetUserQuotes
    \/ AddItem
    \/ UpdateItem
    \/ RemoveItem
    \/ ClearCart
    \/ CreateOrder
    \/ PassTime

SpecShop == InitShop /\ [][NextShop]_vars

-----------------------------------------------------------------------------
(* Order statuses (OrdersService.updateOrderStatus) and payments            *)
(* (PaymentsService): payment intents, Stripe webhook events and refunds.   *)
(* Stripe is configured; what Stripe answers is chosen by the environment.  *)

\* enum OrderStatus
OrderStatus ==
    {"pending_payment", "paid", "processing", "printing", "post_processing",
     "quality_check", "shipped", "delivered", "cancelled", "refunded"}

\* The table with cancelled orders allowed back to paid.
validTransitionsReopening ==
    [current \in OrderStatus |->
        CASE current = "pending_payment" -> {"paid", "cancelled"}
          [] current = "paid" -> {"processing", "cancelled", "refunded"}
          [] current = "processing" -> {"printing", "cancelled"}
          [] current = "printing" -> {"post_processing", "quality_check"}
          [] current = "post_processing" -> {"quality_check"}
          [] current = "quality_check" -> {"shipped", "printing"}
          [] current = "shipped" -> {"delivered"}
          [] current = "delivered" -> {"refunded"}
          [] current = "cancelled" -> {"paid"}
          [] current = "refunded" -> {}]

validTransitions ==
    [current \in OrderStatus |->
        CASE current = "pending_payment" -> {"paid", "cancelled"}
          [] current = "paid" -> {"processing", "cancelled", "refunded"}
          [] current = "processing" -> {"printing", "cancelled"}
          [] current = "printing" -> {"post_processing", "quality_check"}
          [] current = "post_processing" -> {"quality_check"}
          [] current = "quality_check" -> {"shipped", "printing"}
          [] current = "shipped" -> {"delivered"}
          [] current = "delivered" -> {"refunded"}
          [] current = "cancelled" -> {}
          [] current = "refunded" -> {}]

\* TRUE when validateStatusTransition returns, FALSE when it throws.
validateStatusTransition(current, next) == next \in validTransitions[current]

addStatusHistory(order, status, comment, changedBy) ==
    [order EXCEPT !.history =
        Append(@, [status |-> status, comment |-> comment, changedBy |-> changedBy])]

\* The order rows updateOrderStatus leaves and what it returns or throws.
updateOrderStatus(orderRows, orderId, dto, changedBy, now) ==
    IF orderId \notin DOMAIN orderRows
    THEN [orders |-> orderRows,
          reply |-> [kind |-> "thrown", error |-> "NotFoundException",
                     message |-> "Order not found"]]
    ELSE IF ~validateStatusTransition(orderRows[orderId].status, dto.status)
    THEN [orders |-> orderRows,
          reply |-> [kind |-> "thrown", error |-> "BadRequestException",
                     message |-> "Invalid status transition"]]
    ELSE LET Stamped(order) ==
                 CASE dto.status = "paid" ->
                          [order EXCEPT !.status = dto.status, !.paidAt = Date(now)]
                   [] dto.status = "shipped" ->
                          [order EXCEPT !.status = dto.status, !.shippedAt = Date(now)]
                   [] dto.status = "delivered" ->
                          [order EXCEPT !.status = dto.status,
                                        !.deliveredAt = Date(now)]
                   [] OTHER -> [order EXCEPT !.status = dto.status]
             Saved(order) ==
                 [orders |-> [orderRows EXCEPT ![orderId] = order],
                  reply |-> [kind |-> "returned", value |-> order]]
         IN  Saved(addStatusHistory(Stamped(orderRows[orderId]), dto.status,
                                    dto.comment, changedBy))

MaxHistory == 7
MaxIntents == 2
MaxPayments == 1

\* One order as createOrder leaves it: 100.00 of items, 25 shipping, 5% VAT.
PlacedOrders ==
    <<[id |-> 1, userId |-> "u1", status |-> "pending_payment",
       shippingAddress |-> [city |-> "Dubai", country |-> "AE"],
       billingAddress |-> Null,
       pricing |-> [subtotal |-> Whole(100), shippingCost |-> Whole(SHIPPING_COST),
                    taxAmount |-> Round2(Mul(Whole(100), TAX_RATE)),
                    discount |-> Whole(0),
                    total |-> Round2(Add(Add(Whole(100), Whole(SHIPPING_COST)),
                                         Round2(Mul(Whole(100), TAX_RATE)))),
                    currency |-> "AED"],
       notes |-> Null, paymentIntentId |-> Null,
       paidAt |-> Null, shippedAt |-> Null, deliveredAt |-> Null,
       items |-> <<[quoteId |-> 1, unitPrice |-> Whole(50), quantity |-> Whole(2),
                    totalPrice |-> Whole(100)]>>,
       history |-> <<[status |-> "pending_payment",
                      comment |-> Text(<<"Order created">>), changedBy |-> Null]>>]>>

\* RefundPaymentDto.amount: absent, 80, or 131 (above the total of 130).
RefundAmounts == {Null, Whole(80), Whole(131)}

InitOrders ==
    /\ files = <<>>
    /\ quotes = <<>>
    /\ request = NoValue
    /\ replies = <<>>
    /\ quoteInput = NoValue
    /\ pricing = NoValue
    /\ uploads = <<>>
    /\ analyses = <<>>
    /\ clock = 0
    /\ cart = [items |-> <<>>, issued |-> 0]
    /\ orders = PlacedOrders
    /\ payments = [rows |-> <<>>, intents |-> 0]
    /\ users = [rows |-> <<>>, resets |-> 0]
    /\ refreshTokens = <<>>
    /\ calls = {}
    /\ addresses = [rows |-> <<>>, issued |-> 0]

\* PUT /orders/:id/status by an administrator or partner.
UpdateOrderStatus ==
    /\ \A o \in DOMAIN orders : Len(orders[o].history) < MaxHistory
    /\ \E orderId \in 1..(MaxOrders + 1), status \in OrderStatus :
           LET Finish(call) ==
                   /\ orders' = call.orders
                   /\ replies' = <<[call |-> "updateOrderStatus", reply |-> call.reply]>>
           IN  Finish(updateOrderStatus(orders, orderId,
                                        [status |-> status, comment |-> Null],
                                        Text(<<"admin">>), clock))
    /\ UNCHANGED <<quoteVars, stlVars, files, quotes, request, clock, cart, payments,
                   users, refreshTokens, calls, addresses>>

\* this.paymentRepository.findOne({orderId, status}): the rows that match.
PaymentsOf(rows, orderId, status) ==
    {p \in DOMAIN rows : rows[p].orderId = orderId /\ rows[p].status = status}

\* findOne({stripePaymentIntentId})
PaymentsOfIntent(rows, intentId) ==
    {p \in DOMAIN rows : rows[p].stripePaymentIntentId = intentId}

CreatePaymentIntent ==
    /\ payments.intents < MaxIntents
    /\ \E userId \in Users, orderId \in 1..(MaxOrders + 1), retrieved \in BOOLEAN :
           LET Intent(order, id) ==
                   [clientSecret |-> id, paymentIntentId |-> id,
                    amount |-> order.pricing.total, currency |-> order.pricing.currency]
               Existing(order, p) ==
                   IF retrieved
                   THEN /\ replies' = Returns("createPaymentIntent",
                               Intent(order, payments.rows[p].stripePaymentIntentId))
                        /\ UNCHANGED <<payments, orders>>
                   ELSE /\ payments' =
                               [rows |-> [payments.rows EXCEPT
                                   ![p].stripePaymentIntentId = payments.intents + 1],
                                intents |-> payments.intents + 1]
                        /\ replies' = Returns("createPaymentIntent",
                               Intent(order, payments.intents + 1))
                        /\ UNCHANGED orders
               Created(order, id) ==
                   /\ payments' =
                          [rows |-> Append(payments.rows,
                               [id |-> Len(payments.rows) + 1, orderId |-> orderId,
                                stripePaymentIntentId |-> id,
                                amount |-> order.pricing.total,
                                currency |-> order.pricing.currency,
                                status |-> "pending", method |-> "card",
                                refundedAmount |-> Whole(0), paidAt |-> Null,
                                failureReason |-> Null]),
                           intents |-> id]
                   /\ orders' = [orders EXCEPT ![orderId].paymentIntentId = id]
                   /\ replies' = Returns("createPaymentIntent", Intent(order, id))
               Pending == PaymentsOf(payments.rows, orderId, "pending")
           IN  IF orderId \notin DOMAIN orders
               THEN /\ replies' = Throws("createPaymentIntent", "NotFoundException",
                                         "Order not found")
                    /\ UNCHANGED <<payments, orders>>
               ELSE IF orders[orderId].userId # userId
               THEN /\ replies' = Throws("createPaymentIntent", "ForbiddenException",
                                         "Access denied")
                    /\ UNCHANGED <<payments, orders>>
               ELSE IF orders[orderId].status # "pending_payment"
               THEN /\ replies' = Throws("createPaymentIntent", "BadRequestException",
                                         "Order is not pending payment")
                    /\ UNCHANGED <<payments, orders>>
               ELSE IF Pending # {}
               THEN \E p \in Pending : Existing(orders[orderId], p)
               ELSE /\ Len(payments.rows) < MaxPayments
                    /\ Created(orders[orderId], payments.intents + 1)
    /\ UNCHANGED <<quoteVars, stlVars, files, quotes, request, clock, cart, users,
                   refreshTokens, calls, addresses>>

\* Webhook event payment_intent.succeeded: the payment is saved, then the
\* order is updated; an exception of updateOrderStatus leaves the handler.
HandlePaymentSuccess ==
    /\ \E intentId \in 1..(MaxIntents + 1) :
           LET Update(p, rows) ==
                   LET Finish(call) ==
                           /\ payments' = [payments EXCEPT !.rows = rows]
                           /\ orders' = call.orders
                           /\ replies' =
                                  IF call.reply.kind = "thrown"
                                  THEN <<[call |-> "handleWebhook", reply |-> call.reply]>>
                                  ELSE Returns("handleWebhook", Null)
                   IN  Finish(updateOrderStatus(orders, rows[p].orderId,
                                  [status |-> "paid",
                                   comment |-> Text(<<"Payment received">>)],
                                  Text(<<"system">>), clock))
           IN  IF PaymentsOfIntent(payments.rows, intentId) = {}
               THEN /\ replies' = Returns("handleWebhook", Null)
                    /\ UNCHANGED <<payments, orders>>
               ELSE \E p \in PaymentsOfIntent(payments.rows, intentId) :
                        Update(p, [payments.rows EXCEPT ![p].status = "succeeded",
                                                        ![p].paidAt = Date(clock)])
    /\ UNCHANGED <<quoteVars, stlVars, files, quotes, request, clock, cart, users,
                   refreshTokens, calls, addresses>>

\* Webhook event payment_intent.payment_failed.
HandlePaymentFailure ==
    /\ \E intentId \in 1..(MaxIntents + 1) :
           /\ payments' =
                  [payments EXCEPT !.rows =
                      [p \in DOMAIN payments.rows |->
                          IF payments.rows[p].stripePaymentIntentId = intentId
                          THEN [payments.rows[p] EXCEPT
                                   !.status = "failed",
                                   !.failureReason = Text(<<"Payment failed">>)]
                          ELSE payments.rows[p]]]
           /\ replies' = Returns("handleWebhook", Null)
    /\ UNCHANGED <<quoteVars, stlVars, files, quotes, request, clock, cart, orders,
                   users, refreshTokens, calls, addresses>>

\* Webhook event payment_intent.canceled.
HandlePaymentCancellation ==
    /\ \E intentId \in 1..(MaxIntents + 1) :
           /\ payments' =
                  [payments EXCEPT !.rows =
                      [p \in DOMAIN payments.rows |->
                          IF payments.rows[p].stripePaymentIntentId = intentId
                          THEN [payments.rows[p] EXCEPT !.status = "cancelled"]
                          ELSE payments.rows[p]]]
           /\ replies' = Returns("handleWebhook", Null)
    /\ UNCHANGED <<quoteVars, stlVars, files, quotes, request, clock, cart, orders,
                   users, refreshTokens, calls, addresses>>

\* The check of the balance against the payment's amount alone.
refundExceedsAmount(refundAmount, payment) == Gt(refundAmount, payment.amount)

\* refundAmount > payment.amount - payment.refundedAmount
refundExceeds(refundAmount, payment) ==
    Gt(refundAmount, Sub(payment.amount, payment.refundedAmount))

\* payment.refundedAmount += refundAmount and the status that follows.
refunded(payment, refundAmount) ==
    [payment EXCEPT
        !.refundedAmount = Add(@, refundAmount),
        !.status = IF Ge(Add(payment.refundedAmount, refundAmount), payment.amount)
                   THEN "refunded" ELSE "partially_refunded"]

\* POST /payments/:orderId/refund by an administrator; stripeRefunds is
\* whether stripe.refunds.create resolves.
RefundPayment ==
    /\ \E orderId \in 1..(MaxOrders + 1), amount \in RefundAmounts,
          stripeRefunds \in BOOLEAN :
           LET Failed ==
                   Throws("refundPayment", "BadRequestException", "Refund failed")
               Refund(p, saved) ==
                   LET Finish(call) ==
                           /\ payments' = [payments EXCEPT !.rows[p] = saved]
                           /\ orders' = call.orders
                           /\ replies' = IF call.reply.kind = "thrown"
                                         THEN Failed
                                         ELSE Returns("refundPayment", saved)
                   IN  Finish(updateOrderStatus(orders, orderId,
                                  [status |-> "refunded", comment |-> Null],
                                  Text(<<"system">>), clock))
               Try(p, refundAmount) ==
                   IF refundExceeds(refundAmount, payments.rows[p])
                   THEN /\ replies' = Throws("refundPayment", "BadRequestException",
                                             "Refund amount exceeds available balance")
                        /\ UNCHANGED <<payments, orders>>
                   ELSE IF ~stripeRefunds
                   THEN /\ replies' = Failed
                        /\ UNCHANGED <<payments, orders>>
                   ELSE Refund(p, refunded(payments.rows[p], refundAmount))
           IN  IF PaymentsOf(payments.rows, orderId, "succeeded") = {}
               THEN /\ replies' = Throws("refundPayment", "NotFoundException",
                                         "Payment not found or not successful")
                    /\ UNCHANGED <<payments, orders>>
               ELSE \E p \in PaymentsOf(payments.rows, orderId, "succeeded") :
                        Try(p, IF amount = Null THEN payments.rows[p].amount
                               ELSE amount)
    /\ UNCHANGED <<quoteVars, stlVars, files, quotes, request, clock, cart, users,
                   refreshTokens, calls, addresses>>

NextOrders ==
    \/ UpdateOrderStatus
    \/ CreatePaymentIntent
    \/ HandlePaymentSuccess
    \/ HandlePaymentFailure
    \/ HandlePaymentCancellation
    \/ RefundPayment

SpecOrders == InitOrders /\ [][NextOrders]_vars

-----------------------------------------------------------------------------
(* AuthService: refresh tokens and passwords.  A uuid is the number of its  *)
(* issue.  refreshTokens awaits the token record, and awaits again to save  *)
(* it: another request can be served between the two, so the handler is two *)
(* steps, with the calls that have read their record held in calls.  The    *)
(* other handlers are served one at a time.                                 *)

Uuid(n) == [kind |-> "uuid", n |-> n]

\* common/utils/hash.util: comparePasswords(p, hash) holds exactly for the
\* password the hash was made from.
hashPassword(password) == [kind |-> "hash", of |-> password]
comparePasswords(password, hash) == hash.of = password

\* calculateExpirationDate('7d'), in hours.
RefreshExpiresIn == 7 * 24

\* Date.now() + 3600000, in hours.
ResetExpiresIn == 1

MaxTokens == 3
MaxInFlight == 2
MaxResets == 1

\* "a@x", "A@X", "b@x", "c@x" as character codes
Emails == {<<97, 64, 120>>, <<65, 64, 88>>, <<98, 64, 120>>, <<99, 64, 120>>}
Passwords == {"Passw0rd", "Secr3tPass"}

\* Two registered users, the second one suspended.
RegisteredUsers ==
    <<[id |-> "u1", email |-> <<97, 64, 120>>, status |-> "active",
       passwordHash |-> hashPassword("Passw0rd"),
       passwordResetToken |-> Null, passwordResetExpires |-> Null],
      [id |-> "u2", email |-> <<98, 64, 120>>, status |-> "suspended",
       passwordHash |-> hashPassword("Passw0rd"),
       passwordResetToken |-> Null, passwordResetExpires |-> Null]>>

InitAuth ==
    /\ files = <<>>
    /\ quotes = <<>>
    /\ request = NoValue
    /\ replies = <<>>
    /\ quoteInput = NoValue
    /\ pricing = NoValue
    /\ uploads = <<>>
    /\ analyses = <<>>
    /\ clock = 0
    /\ cart = [items |-> <<>>, issued |-> 0]
    /\ orders = <<>>
    /\ payments = [rows |-> <<>>, intents |-> 0]
    /\ users = [rows |-> RegisteredUsers, resets |-> 0]
    /\ refreshTokens = <<>>
    /\ calls = {}
    /\ addresses = [rows |-> <<>>, issued |-> 0]

\* userRepository.findOne({where: {email}})
UsersByEmail(rows, email) == {u \in DOMAIN rows : rows[u].email = email}

\* userRepository.findOne({where: {id}})
UsersById(rows, id) == {u \in DOMAIN rows : rows[u].id = id}

\* What the last call was made for (a user, a reset token), kept beside
\* its reply.
With(args, reply) == <<[call |-> reply[1].call, args |-> args, reply |-> reply[1].reply]>>

\* generateAuthResponse: a new refresh token saved for the user.
generateAuthResponse(tokenRows, user, now) ==
    Append(tokenRows,
           [token |-> Uuid(Len(tokenRows) + 1), userId |-> user.id,
            isRevoked |-> FALSE, expiresAt |-> now + RefreshExpiresIn])

\* The tokens of the user left as they are.
logoutAllKeepsTokens(tokenRows, userId) == tokenRows

\* UPDATE refresh_tokens SET isRevoked = true WHERE userId = ... AND NOT isRevoked
logoutAll(tokenRows, userId) ==
    [t \in DOMAIN tokenRows |->
        IF tokenRows[t].userId = userId /\ ~tokenRows[t].isRevoked
        THEN [tokenRows[t] EXCEPT !.isRevoked = TRUE]
        ELSE tokenRows[t]]

\* Whether tokens can still be issued within the bound, the refreshTokens
\* calls in flight counted.
RoomForToken == Len(refreshTokens) + Cardinality(calls) < MaxTokens

Login ==
    /\ RoomForToken
    /\ \E email \in Emails, password \in Passwords :
           LET Found == UsersByEmail(users.rows, toLowerCase(email))
               Invalid == Throws("login", "UnauthorizedException", "Invalid credentials")
               Check(user) ==
                   IF user.status # "active"
                   THEN /\ replies' = Throws("login", "UnauthorizedException",
                                             "Account is not active")
                        /\ UNCHANGED refreshTokens
                   ELSE IF ~comparePasswords(password, user.passwordHash)
                   THEN /\ replies' = Invalid
                        /\ UNCHANGED refreshTokens
                   ELSE /\ refreshTokens' = generateAuthResponse(refreshTokens, user, clock)
                        /\ replies' = Returns("login",
                               [refreshToken |-> Uuid(Len(refreshTokens) + 1)])
           IN  IF Found = {}
               THEN /\ replies' = Invalid
                    /\ UNCHANGED refreshTokens
               ELSE \E u \in Found : Check(users.rows[u])
    /\ UNCHANGED <<quoteVars, stlVars, files, quotes, request, clock, cart, orders,
                   payments, users, calls, addresses>>

\* findOne({where: {token, isRevoked: false, expiresAt: MoreThan(new Date())}})
ValidTokens(tokenRows, token, now) ==
    {t \in DOMAIN tokenRows :
        /\ tokenRows[t].token = token
        /\ ~tokenRows[t].isRevoked
        /\ tokenRows[t].expiresAt > now}

\* refreshTokens up to the token record it has read.
RefreshTokensFind ==
    /\ RoomForToken
    /\ \E token \in 1..(MaxTokens + 1), c \in 1..MaxInFlight :
           /\ \A call \in calls : call.id # c
           /\ \A free \in 1..(c - 1) : \E call \in calls : call.id = free
           /\ LET Check(t, user) ==
                      IF user.status # "active"
                      THEN /\ replies' = Throws("refreshTokens", "UnauthorizedException",
                                                "Account is not active")
                           /\ UNCHANGED calls
                      ELSE /\ calls' = calls \cup
                                  {[id |-> c, record |-> t,
                                    user |-> [id |-> user.id, email |-> user.email]]}
                           /\ UNCHANGED replies
              IN  IF ValidTokens(refreshTokens, Uuid(token), clock) = {}
                  THEN /\ replies' = Throws("refreshTokens", "UnauthorizedException",
                                            "Invalid or expired refresh token")
                       /\ UNCHANGED calls
                  ELSE \E t \in ValidTokens(refreshTokens, Uuid(token), clock) :
                           \E u \in UsersById(users.rows, refreshTokens[t].userId) :
                               Check(t, users.rows[u])
    /\ UNCHANGED <<quoteVars, stlVars, files, quotes, request, clock, cart, orders,
                   payments, users, refreshTokens, addresses>>

\* refreshTokens from the record it has read: the record saved as revoked
\* and a new token generated.
RefreshTokensSave ==
    /\ \E call \in calls :
           /\ refreshTokens' =
                  generateAuthResponse(
                      [refreshTokens EXCEPT ![call.record].isRevoked = TRUE],
                      call.user, clock)
           /\ calls' = calls \ {call}
           /\ replies' = Returns("refreshTokens",
                  [refreshToken |-> Uuid(Len(refreshTokens) + 1)])
    /\ UNCHANGED <<quoteVars, stlVars, files, quotes, request, clock, cart, orders,
                   payments, users, addresses>>

Logout ==
    /\ \E token \in 1..(MaxTokens + 1) :
           /\ refreshTokens' =
                  [t \in DOMAIN refreshTokens |->
                      IF refreshTokens[t].token = Uuid(token)
                      THEN [refreshTokens[t] EXCEPT !.isRevoked = TRUE]
                      ELSE refreshTokens[t]]
           /\ replies' = Returns("logout", Null)
    /\ UNCHANGED <<quoteVars, stlVars, files, quotes, request, clock, cart, orders,
                   payments, users, calls, addresses>>

LogoutAll ==
    /\ \E userId \in Users :
           /\ refreshTokens' = logoutAll(refreshTokens, userId)
           /\ replies' = Returns("logoutAll", Null)
    /\ UNCHANGED <<quoteVars, stlVars, files, quotes, request, clock, cart, orders,
                   payments, users, calls, addresses>>

ForgotPassword ==
    /\ users.resets < MaxResets
    /\ \E email \in Emails :
           LET Found == UsersByEmail(users.rows, toLowerCase(email))
           IN  /\ IF Found = {}
                  THEN UNCHANGED users
                  ELSE \E u \in Found :
                           users' =
                               [rows |-> [users.rows EXCEPT
                                    ![u].passwordResetToken = Uuid(users.resets + 1),
                                    ![u].passwordResetExpires =
                                        Date(clock + ResetExpiresIn)],
                                resets |-> users.resets + 1]
               /\ replies' = Returns("forgotPassword", Null)
    /\ UNCHANGED <<quoteVars, stlVars, files, quotes, request, clock, cart, orders,
                   payments, refreshTokens, calls, addresses>>

\* findOne({where: {passwordResetToken, passwordResetExpires: MoreThan(new Date())}})
UsersByResetToken(rows, token, now) ==
    {u \in DOMAIN rows :
        /\ rows[u].passwordResetToken = token
        /\ rows[u].passwordResetExpires # Null
        /\ rows[u].passwordResetExpires.time > now}

ResetPassword ==
    /\ \E token \in 1..(MaxResets + 1), newPassword \in Passwords :
           LET Found == UsersByResetToken(users.rows, Uuid(token), clock)
               Args == [token |-> Uuid(token)]
           IN  IF Found = {}
               THEN /\ replies' = With(Args,
                           Throws("resetPassword", "BadRequestException",
                                  "Invalid or expired reset token"))
                    /\ UNCHANGED <<users, refreshTokens>>
               ELSE \E u \in Found :
                        /\ users' = [users EXCEPT
                               !.rows[u].passwordHash = hashPassword(newPassword),
                               !.rows[u].passwordResetToken = Null,
                               !.rows[u].passwordResetExpires = Null]
                        /\ refreshTokens' = logoutAll(refreshTokens, users.rows[u].id)
                        /\ replies' = With(Args, Returns("resetPassword", Null))
    /\ UNCHANGED <<quoteVars, stlVars, files, quotes, request, clock, cart, orders,
                   payments, calls, addresses>>

ChangePassword ==
    /\ \E userId \in Users \cup {"u3"}, currentPassword \in Passwords,
          newPassword \in Passwords :
           LET Found == UsersById(users.rows, userId)
               Args == [userId |-> userId]
               Change(u) ==
                   IF ~comparePasswords(currentPassword, users.rows[u].passwordHash)
                   THEN /\ replies' = With(Args,
                               Throws("changePassword", "BadRequestException",
                                      "Current password is incorrect"))
                        /\ UNCHANGED <<users, refreshTokens>>
                   ELSE /\ users' = [users EXCEPT
                               !.rows[u].passwordHash = hashPassword(newPassword)]
                        /\ refreshTokens' = logoutAll(refreshTokens, users.rows[u].id)
                        /\ replies' = With(Args, Returns("changePassword", Null))
           IN  IF Found = {}
               THEN /\ replies' = With(Args,
                           Throws("changePassword", "NotFoundException",
                                  "User not found"))
                    /\ UNCHANGED <<users, refreshTokens>>
               ELSE \E u \in Found : Change(u)
    /\ UNCHANGED <<quoteVars, stlVars, files, quotes, request, clock, cart, orders,
                   payments, calls, addresses>>

NextAuth ==
    \/ Login
    \/ RefreshTokensFind
    \/ RefreshTokensSave
    \/ Logout
    \/ LogoutAll
    \/ ForgotPassword
    \/ ResetPassword
    \/ ChangePassword
    \/ PassTime

SpecAuth == InitAuth /\ [][NextAuth]_vars

-----------------------------------------------------------------------------
(* UsersService: the addresses of a user.  createdAt is the number of the   *)
(* address's creation.  UpdateAddressDto is declared outside the modelled   *)
(* sources; the DTO of the model carries isDefault, the one field of it     *)
(* that updateAddress reads.                                                *)

\* enum AddressType
AddressType == {"billing", "shipping"}

MaxAddresses == 3

\* A boolean held by a property that may also be undefined.
Boolean(value) == [kind |-> "boolean", value |-> value]

\* CreateAddressDto: type, and isDefault or none.
CreateAddressDtos == [type : AddressType, isDefault : {Null, Boolean(TRUE), Boolean(FALSE)}]

\* UpdateAddressDto: isDefault or none.
UpdateAddressDtos == [isDefault : {Null, Boolean(TRUE), Boolean(FALSE)}]

InitUsers ==
    /\ files = <<>>
    /\ quotes = <<>>
    /\ request = NoValue
    /\ replies = <<>>
    /\ quoteInput = NoValue
    /\ pricing = NoValue
    /\ uploads = <<>>
    /\ analyses = <<>>
    /\ clock = 0
    /\ cart = [items |-> <<>>, issued |-> 0]
    /\ orders = <<>>
    /\ payments = [rows |-> <<>>, intents |-> 0]
    /\ users = [rows |-> <<>>, resets |-> 0]
    /\ refreshTokens = <<>>
    /\ calls = {}
    /\ addresses = [rows |-> <<>>, issued |-> 0]

\* addressRepository.update({userId, type, isDefault: true}, {isDefault: false})
unsetDefaults(rows, userId, type) ==
    [a \in DOMAIN rows |->
        IF rows[a].userId = userId /\ rows[a].type = type /\ rows[a].isDefault
        THEN [rows[a] EXCEPT !.isDefault = FALSE]
        ELSE rows[a]]

\* The rows with the given id that belong to the user (getAddressById).
AddressesById(rows, userId, addressId) ==
    {a \in DOMAIN rows : rows[a].id = addressId /\ rows[a].userId = userId}

AddressNotFound(call) == Throws(call, "NotFoundException", "Address not found")

CreateAddress ==
    /\ addresses.issued < MaxAddresses
    /\ \E userId \in Users, dto \in CreateAddressDtos :
           LET Save(rows) ==
                   LET OfType(row) == row.userId = userId /\ row.type = dto.type
                       Saved(address) ==
                           /\ addresses' = [rows |-> Append(rows, address),
                                            issued |-> addresses.issued + 1]
                           /\ replies' = Returns("createAddress", address)
                   IN  Saved([id |-> addresses.issued + 1, userId |-> userId,
                              type |-> dto.type,
                              isDefault |-> (dto.isDefault = Boolean(TRUE)
                                             \/ Len(SelectSeq(rows, OfType)) = 0),
                              createdAt |-> addresses.issued + 1])
           IN  Save(IF dto.isDefault = Boolean(TRUE)
                    THEN unsetDefaults(addresses.rows, userId, dto.type)
                    ELSE addresses.rows)
    /\ UNCHANGED <<quoteVars, stlVars, files, quotes, request, clock, cart, orders,
                   payments, users, refreshTokens, calls>>

\* Object.assign(address, dto)
assign(address, dto) ==
    IF dto.isDefault = Null THEN address
    ELSE [address EXCEPT !.isDefault = dto.isDefault.value]

UpdateAddress ==
    /\ \E userId \in Users, addressId \in 1..(MaxAddresses + 1),
          dto \in UpdateAddressDtos :
           LET Found == AddressesById(addresses.rows, userId, addressId)
               Save(a, rows) ==
                   /\ addresses' = [addresses EXCEPT
                          !.rows = [rows EXCEPT ![a] = assign(addresses.rows[a], dto)]]
                   /\ replies' = Returns("updateAddress", assign(addresses.rows[a], dto))
           IN  IF Found = {}
               THEN /\ replies' = AddressNotFound("updateAddress")
                    /\ UNCHANGED addresses
               ELSE \E a \in Found :
                        Save(a, IF dto.isDefault = Boolean(TRUE) /\ ~addresses.rows[a].isDefault
                                THEN unsetDefaults(addresses.rows, userId,
                                                   addresses.rows[a].type)
                                ELSE addresses.rows)
    /\ UNCHANGED <<quoteVars, stlVars, files, quotes, request, clock, cart, orders,
                   payments, users, refreshTokens, calls>>

\* findOne({where: {userId, type}, order: {createdAt: 'DESC'}})
LatestOfType(rows, userId, type) ==
    {a \in DOMAIN rows :
        /\ rows[a].userId = userId
        /\ rows[a].type = type
        /\ \A b \in DOMAIN rows :
               (rows[b].userId = userId /\ rows[b].type = type) =>
                   rows[b].createdAt <= rows[a].createdAt}

DeleteAddress ==
    /\ \E userId \in Users, addressId \in 1..(MaxAddresses + 1) :
           LET Found == AddressesById(addresses.rows, userId, addressId)
               Promote(address, rows) ==
                   IF address.isDefault
                      /\ LatestOfType(rows, userId, address.type) # {}
                   THEN \E a \in LatestOfType(rows, userId, address.type) :
                            addresses' = [addresses EXCEPT
                                !.rows = [rows EXCEPT ![a].isDefault = TRUE]]
                   ELSE addresses' = [addresses EXCEPT !.rows = rows]
               Remove(address) ==
                   LET Others(row) == row.id # address.id
                   IN  /\ Promote(address, SelectSeq(addresses.rows, Others))
                       /\ replies' = Returns("deleteAddress", address)
           IN  IF Found = {}
               THEN /\ replies' = AddressNotFound("deleteAddress")
                    /\ UNCHANGED addresses
               ELSE \E a \in Found : Remove(addresses.rows[a])
    /\ UNCHANGED <<quoteVars, stlVars, files, quotes, request, clock, cart, orders,
                   payments, users, refreshTokens, calls>>

SetDefaultAddress ==
    /\ \E userId \in Users, addressId \in 1..(MaxAddresses + 1) :
           LET Found == AddressesById(addresses.rows, userId, addressId)
               Save(a, rows) ==
                   /\ addresses' = [addresses EXCEPT
                          !.rows = [rows EXCEPT ![a].isDefault = TRUE]]
                   /\ replies' = Returns("setDefaultAddress",
                                         [addresses.rows[a] EXCEPT !.isDefault = TRUE])
           IN  IF Found = {}
               THEN /\ replies' = AddressNotFound("setDefaultAddress")
                    /\ UNCHANGED addresses
               ELSE \E a \in Found :
                        Save(a, unsetDefaults(addresses.rows, userId,
                                              addresses.rows[a].type))
    /\ UNCHANGED <<quoteVars, stlVars, files, quotes, request, clock, cart, orders,
                   payments, users, refreshTokens, calls>>

NextUsers ==
    \/ CreateAddress
    \/ UpdateAddress
    \/ DeleteAddress
    \/ SetDefaultAddress

SpecUsers == InitUsers /\ [][NextUsers]_vars

----------------------------------------------------------------------------
(* Claims about calculatePricing *)

\* The sum of the four cost components a breakdown reports.
ComponentSum(p) ==
    Add(Add(Add(p.materialCost, p.laborCost), p.setupFee), p.postProcessingFee)

\* The fee table of the specification: the five fixed fees, 0 for any other tag.
FixedCost(tag) ==
    CASE tag = "sanding" -> 20
      [] tag = "painting" -> 35
      [] tag = "polishing" -> 25
      [] tag = "assembly" -> 50
      [] tag = "heat-treatment" -> 40
      [] OTHER -> 0

RECURSIVE FixedCostSum(_)
FixedCostSum(tags) ==
    IF tags = <<>> THEN 0 ELSE FixedCost(Head(tags)) + FixedCostSum(Tail(tags))

\* C1: every breakdown has total = max(round2(subtotal - discount), minPrice),
\* hence total >= minPrice, for every quantity including the discounted tiers.
C1_FloorAfterDiscount ==
    Priced =>
        LET minPrice == quoteInput.material.pricing.minPrice
        IN  /\ pricing.total =
                   MathMax(Round2(Sub(pricing.subtotal, pricing.discount)), minPrice)
            /\ Ge(pricing.total, minPrice)

\* C2: the reported subtotal is the sum of the reported materialCost, laborCost,
\* setupFee and postProcessingFee, and the reported discount and total are the
\* ones that subtotal gives.
C2_SubtotalIsSum ==
    Priced =>
        LET q == quoteInput.configuration.quantity
            rate == IF Ge(q, Whole(10)) THEN Num(10, 100)
                    ELSE IF Ge(q, Whole(5)) THEN Num(5, 100) ELSE Whole(0)
        IN  /\ pricing.subtotal = ComponentSum(pricing)
            /\ pricing.discount = Round2(Mul(pricing.subtotal, rate))
            /\ pricing.total =
                   MathMax(Round2(Sub(pricing.subtotal, pricing.discount)),
                           quoteInput.material.pricing.minPrice)

\* The input of the specification's worked example.
ExampleInput ==
    /\ quoteInput.volumeCm3 = Whole(10)
    /\ quoteInput.material.pricing.basePrice = Num(1, 2)
    /\ quoteInput.material.pricing.setupFee = Whole(10)
    /\ quoteInput.material.pricing.minPrice = Whole(25)
    /\ quoteInput.configuration.quantity = Whole(1)
    /\ quoteInput.configuration.infillPercentage = Whole(20)
    /\ quoteInput.configuration.postProcessing = <<>>

\* C3: with E = V*(I/100)*0.8 + V*0.2, materialCost = round2(E*B*Q) and
\* laborCost = round2((E/30)*15*Q); the worked example (V=10, B=0.5, setupFee
\* 10, minPrice 25, Q=1, I=20, no post-processing) gives 1.80, 1.80, subtotal
\* 13.60, discount 0 and total 25.00.
C3_CostFormulas ==
    Priced =>
        LET V == quoteInput.volumeCm3
            I == quoteInput.configuration.infillPercentage
            Q == quoteInput.configuration.quantity
            B == quoteInput.material.pricing.basePrice
            \* V * (0.8*I + 20) / 100
            E == Div(Mul(V, Add(Mul(Num(4, 5), I), Whole(20))), Whole(100))
        IN  /\ pricing.materialCost = Round2(Mul(E, Mul(B, Q)))
            /\ pricing.laborCost = Round2(Mul(Div(E, Whole(30)), Mul(Whole(15), Q)))
            /\ ExampleInput =>
                   /\ pricing.materialCost = Num(180, 100)
                   /\ pricing.laborCost = Num(180, 100)
                   /\ pricing.subtotal = Num(1360, 100)
                   /\ pricing.discount = Whole(0)
                   /\ pricing.total = Whole(25)

C3_Witness == Priced /\ ExampleInput /\ pricing.materialCost = Num(9, 5)

\* C4: the discount is round2(10% of the subtotal) from quantity 10 up,
\* round2(5% of the subtotal) for quantities from 5 up to but excluding 10, and
\* 0 below 5, the subtotal being the sum of the four cost components.
C4_DiscountTiers ==
    Priced =>
        LET Q == quoteInput.configuration.quantity
            s == ComponentSum(pricing)
        IN  /\ ~Lt(Q, Whole(10)) => pricing.discount = Round2(Div(s, Whole(10)))
            /\ (~Lt(Q, Whole(5)) /\ Lt(Q, Whole(10))) =>
                   pricing.discount = Round2(Div(s, Whole(20)))
            /\ Lt(Q, Whole(5)) => pricing.discount = Whole(0)

C4_Witness ==
    /\ Priced
    /\ quoteInput.configuration.quantity = Whole(10)
    /\ Gt(pricing.discount, Whole(0))
    /\ pricing.discount = Round2(Div(ComponentSum(pricing), Whole(10)))

\* C5: postProcessingFee = round2(Q * sum of the fixed cost of every list
\* entry), an entry outside the five known tags counting 0 and a repeated
\* entry counting again.
C5_PostProcessingFee ==
    Priced =>
        pricing.postProcessingFee =
            Round2(Mul(quoteInput.configuration.quantity,
                       Whole(FixedCostSum(quoteInput.configuration.postProcessing))))

----------------------------------------------------------------------------
(* Claims about analyzeStl *)

Calls == DOMAIN analyses

Zeroed(a) ==
    /\ a.volume = Whole(0)
    /\ a.surfaceArea = Whole(0)
    /\ a.boundingBox = [x |-> Whole(0), y |-> Whole(0), z |-> Whole(0)]
    /\ a.triangleCount = 0
    /\ a.isWatertight = FALSE

ErrorMessages(a) == IF "errors" \in DOMAIN a THEN a.errors ELSE <<>>

\* An analysis returned (not an exception thrown) that reports failure.
FailedAnalysis(a) ==
    /\ a.kind = "FileAnalysis"
    /\ a.hasErrors
    /\ ErrorMessages(a) # <<>>
    /\ Zeroed(a)

\* C6: an analysis with hasErrors = true has volume 0, surfaceArea 0, bounding
\* box {0,0,0}, triangleCount 0, isWatertight = false and a non-empty errors
\* list; an analysis with hasErrors = false carries no error messages.
C6_ErrorsMeanZeroed ==
    \A i \in Calls :
        IF analyses[i].hasErrors THEN FailedAnalysis(analyses[i])
        ELSE ErrorMessages(analyses[i]) = <<>>

C6_Witness ==
    \E i, j \in Calls :
        /\ analyses[i].hasErrors /\ FailedAnalysis(analyses[i])
        /\ ~analyses[j].hasErrors

\* The buffer does not begin, case-insensitively, with "solid".
NotSolid(buffer) ==
    \/ Len(buffer) < 5
    \/ \E k \in 1..5 :
           buffer[k] % 128 \notin {StrSolid[k], StrSolid[k] - 32}

\* The triangle count a binary header of at least 84 bytes declares.
DeclaredCount(buffer) ==
    buffer[81] + 256 * (buffer[82] + 256 * (buffer[83] + 256 * buffer[84]))

TooShort(buffer) ==
    Len(buffer) < 84 \/ Len(buffer) < 84 + 50 * DeclaredCount(buffer)

\* C7: for a buffer classified as binary that is shorter than 84 bytes, or
\* shorter than 84 + 50*N bytes, analyzeStl throws nothing and returns a
\* zeroed analysis with hasErrors = true and a non-empty errors list; a
\* binary buffer of at least 84 + 50*N bytes gets hasErrors = false and
\* triangleCount = N.
C7_ShortBinaryIsReported ==
    \A i \in Calls :
        NotSolid(uploads[i].buffer) =>
            IF TooShort(uploads[i].buffer) THEN FailedAnalysis(analyses[i])
            ELSE /\ analyses[i].kind = "FileAnalysis"
                 /\ ~analyses[i].hasErrors
                 /\ analyses[i].triangleCount = DeclaredCount(uploads[i].buffer)

C7_Witness ==
    \E j, k \in Calls :
        /\ NotSolid(uploads[j].buffer) /\ Len(uploads[j].buffer) >= 84
        /\ TooShort(uploads[j].buffer) /\ FailedAnalysis(analyses[j])
        /\ NotSolid(uploads[k].buffer) /\ ~TooShort(uploads[k].buffer)
        /\ analyses[k].triangleCount = 12

\* A complete binary file of a 10 mm cube of 12 outward-wound triangles.
IsCubeFile(src) ==
    /\ src.format = "binary"
    /\ src.facets \in {Cube(0, 0, 0), Cube(-5, -5, -5)}
    /\ src.declared = 12
    /\ src.cut = 0

\* C8: the binary STL of a closed, outward-wound 10 mm cube of 12 triangles
\* is analysed as volume 1.00, surfaceArea 6.00, boundingBox {10,10,10},
\* triangleCount 12, isWatertight = true, hasErrors = false.
C8_CubeAnalysis ==
    \A i \in Calls :
        IsCubeFile(uploads[i].source) =>
            analyses[i] =
                [kind |-> "FileAnalysis",
                 volume |-> Whole(1),
                 surfaceArea |-> Whole(6),
                 boundingBox |-> [x |-> Whole(10), y |-> Whole(10), z |-> Whole(10)],
                 triangleCount |-> 12,
                 isWatertight |-> TRUE,
                 hasErrors |-> FALSE]

C8_Witness ==
    \E i, j \in Calls :
        /\ IsCubeFile(uploads[i].source) /\ uploads[i].source.facets = Cube(0, 0, 0)
        /\ IsCubeFile(uploads[j].source) /\ uploads[j].source.facets = Cube(-5, -5, -5)
        /\ analyses[i].volume = Whole(1) /\ analyses[j].volume = Whole(1)

\* The triangles a decoder finds in a file written from src: the declared
\* number of records of a binary file, the facets of exactly three vertices
\* of an ASCII file.
\* The vertex lines of a written facet that give three coordinates.
FullVertices(facet) == SelectSeq(facet, LAMBDA v : Len(v) >= 3)

RECURSIVE ThreeVertexFacets(_)
ThreeVertexFacets(facets) ==
    IF facets = <<>> THEN <<>>
    ELSE (IF Len(FullVertices(Head(facets))) = 3 THEN <<FullVertices(Head(facets))>>
          ELSE <<>>)
             \o ThreeVertexFacets(Tail(facets))

\* The written facets whose endfacet line is still in the file: a cut of
\* more than the line terminator (at most the endfacet line itself) removes
\* the last one.
ClosedFacets(src) ==
    IF src.cut <= (IF src.style = "upper" THEN 2 ELSE 1) THEN src.facets
    ELSE SubSeq(src.facets, 1, Len(src.facets) - 1)

TrianglesOf(src) ==
    IF src.format = "binary" THEN SubSeq(src.facets, 1, src.declared)
    ELSE ThreeVertexFacets(ClosedFacets(src))

Cross(a, b) ==
    <<Sub(Mul(a[2], b[3]), Mul(a[3], b[2])),
      Sub(Mul(a[3], b[1]), Mul(a[1], b[3])),
      Sub(Mul(a[1], b[2]), Mul(a[2], b[1]))>>

Dot(a, b) == Add(Add(Mul(a[1], b[1]), Mul(a[2], b[2])), Mul(a[3], b[3]))

\* The sum over the triangles of v0 . (v1 x v2) / 6.
RECURSIVE SignedVolumeSum(_)
SignedVolumeSum(triangles) ==
    IF triangles = <<>> THEN Whole(0)
    ELSE Add(Div(Dot(Head(triangles)[1],
                     Cross(Head(triangles)[2], Head(triangles)[3])), Whole(6)),
             SignedVolumeSum(Tail(triangles)))

\* g is f with the winding of every triangle reversed.
IsReversalOf(g, f) ==
    /\ Len(g) = Len(f)
    /\ \A k \in 1..Len(f) :
           /\ Len(f[k]) = 3
           /\ g[k] \in {SwapVertices(f[k], 1, 2), SwapVertices(f[k], 1, 3),
                        SwapVertices(f[k], 2, 3)}

\* Upload j is upload i with every winding reversed, and upload i was
\* analysed with a positive accumulated signed volume.
ReversedPair(i, j) ==
    /\ ~analyses[i].hasErrors
    /\ uploads[j].source.format = uploads[i].source.format
    /\ uploads[j].source.style = uploads[i].source.style
    /\ uploads[j].source.declared = uploads[i].source.declared
    /\ uploads[j].source.cut = uploads[i].source.cut
    /\ IsReversalOf(uploads[j].source.facets, uploads[i].source.facets)
    /\ Gt(SignedVolumeSum(TrianglesOf(uploads[i].source)), Whole(0))

\* C9: reversing the winding of every triangle of a mesh whose accumulated
\* signed volume is positive keeps volume, surfaceArea, boundingBox and
\* triangleCount and turns isWatertight from true to false.
C9_ReversedWinding ==
    \A i, j \in Calls :
        ReversedPair(i, j) =>
            /\ analyses[i].isWatertight
            /\ analyses[j] = [analyses[i] EXCEPT !.isWatertight = FALSE]

C9_Witness ==
    \E i, j \in Calls :
        /\ ReversedPair(i, j)
        /\ uploads[i].source.facets = Cube(0, 0, 0)
        /\ analyses[i].isWatertight /\ ~analyses[j].isWatertight
        /\ analyses[j].volume = Whole(1)

\* C10: in the binary and in the ASCII decoder, a successful analysis has
\* isWatertight = true exactly when the sum over all triangles of
\* v0 . (v1 x v2) / 6 is strictly positive; a zero or negative sum, and a mesh
\* without triangles, is reported as not watertight.
C10_WatertightIsPositiveSum ==
    \A i \in Calls :
        ~analyses[i].hasErrors =>
            (analyses[i].isWatertight <=>
                 Gt(SignedVolumeSum(TrianglesOf(uploads[i].source)), Whole(0)))

C10_Witness ==
    \E i, j \in Calls :
        /\ uploads[i].source.format = "binary" /\ analyses[i].isWatertight
        /\ uploads[j].source.format = "ascii" /\ ~analyses[j].hasErrors
        /\ analyses[j].triangleCount = 0 /\ ~analyses[j].isWatertight

----------------------------------------------------------------------------
(* Claims on the ASCII decoder and on the choice of decoder *)

RECURSIVE AreaSum(_)
AreaSum(triangles) ==
    IF triangles = <<>> THEN Whole(0)
    ELSE Add(AreaSum(SubSeq(triangles, 1, Len(triangles) - 1)),
             calculateTriangleArea(triangles[Len(triangles)]))

\* The calls that went to the ASCII decoder.
AsciiCalls == {i \in Calls : ~isBinaryStl(uploads[i].buffer)}

SolidPrefix(buffer) ==
    /\ Len(buffer) >= 5
    /\ \A k \in 1..5 : ToLowerChar(buffer[k] % 128) = StrSolid[k]

\* What the caller gets when an outcome is an analysis or a thrown error.
Caught(outcome) ==
    IF outcome.kind = "Error" THEN getDefaultAnalysis(outcome.message) ELSE outcome

\* For each modelled buffer, the analysis of the decoder its prefix selects.
AnalysisByPrefix ==
    { [buffer |-> f.buffer,
       analysis |-> IF SolidPrefix(f.buffer) THEN Caught(analyzeAsciiStl(f.buffer))
                    ELSE Caught(analyzeBinaryStl(f.buffer))] : f \in StlFiles }

\* C12: analyzeStl runs the ASCII decoder exactly when the first 5 bytes of
\* the buffer, read as ASCII and lowercased, are "solid", and the binary
\* decoder on every other buffer, those shorter than 5 bytes included.
C12_DecoderByPrefix ==
    \A i \in Calls :
        [buffer |-> uploads[i].buffer, analysis |-> analyses[i]] \in AnalysisByPrefix

\* An upper-case "SOLID" file decoded as text, and the four bytes "soli"
\* rejected by the binary decoder.
C12_Witness ==
    \E i, j \in Calls :
        /\ Len(uploads[i].buffer) >= 5
        /\ SubSeq(uploads[i].buffer, 1, 5) = <<83, 79, 76, 73, 68>>
        /\ analyses[i].triangleCount = 1
        /\ ~analyses[i].hasErrors
        /\ uploads[j].buffer = <<115, 111, 108, 105>>
        /\ ErrorMessages(analyses[j]) = <<"Invalid binary STL: file too small">>

----------------------------------------------------------------------------
(* Claims on the returned analysis as a whole *)

NonNegative(x) == Ge(x, Whole(0))

\* C13: every analysis analyzeStl returns, for meshes without triangles and
\* for ASCII files with malformed vertex tokens too, has volume >= 0,
\* surfaceArea >= 0, a natural triangleCount and bounding-box extents >= 0.
C13_NonNegativeAnalysis ==
    \A i \in Calls :
        /\ NonNegative(analyses[i].volume)
        /\ NonNegative(analyses[i].surfaceArea)
        /\ analyses[i].triangleCount \in Nat
        /\ NonNegative(analyses[i].boundingBox.x)
        /\ NonNegative(analyses[i].boundingBox.y)
        /\ NonNegative(analyses[i].boundingBox.z)

----------------------------------------------------------------------------
(* Claims on FilesService.uploadFile *)

UploadCalls == {k \in DOMAIN replies : replies[k].call = "uploadFile"}

\* The calls that saved a row, and the row the repository now holds for one.
SavingCalls == {k \in UploadCalls : replies[k].saved # <<>>}
RowOf(k) == files[replies[k].saved[1].id]

\* The calls whose file passed validation and was written to storage.
StoredCalls == {k \in SavingCalls : replies[k].storage.error = Null}

NonEmptyText(t) == t # Null /\ \E k \in DOMAIN t.pieces : t.pieces[k] # ""

C20_PlaceholderForOtherTypes ==
    \A k \in StoredCalls :
        RowOf(k).filename.ext \in ALLOWED_EXTENSIONS \ {ExtStl} =>
            /\ RowOf(k).status = "ready"
            /\ RowOf(k).analysis.volume = Whole(100)
            /\ RowOf(k).analysis.surfaceArea = Whole(200)
            /\ RowOf(k).analysis.boundingBox =
                   [x |-> Whole(10), y |-> Whole(10), z |-> Whole(10)]
            /\ RowOf(k).analysis.triangleCount = 0
            /\ RowOf(k).analysis.isWatertight
            /\ ~RowOf(k).analysis.hasErrors
            /\ replies[k].reply.kind = "returned"

\* The same bytes uploaded as "a.obj" and as "a.stl": the parser rejects
\* them, the .obj upload is READY with volume 100.
C20_Witness ==
    \E j, k \in StoredCalls :
        /\ replies[j].uploadedFile.buffer = replies[k].uploadedFile.buffer
        /\ RowOf(j).filename.ext = ExtObj
        /\ RowOf(j).status = "ready"
        /\ RowOf(j).analysis.volume = Whole(100)
        /\ RowOf(k).filename.ext = ExtStl
        /\ RowOf(k).status = "error"

----------------------------------------------------------------------------
(* Claims on QuotesService.createQuote *)

\* The createQuote calls that saved a quote.
QuotedCalls == {k \in DOMAIN replies : replies[k].call = "createQuote"
                                       /\ replies[k].saved # <<>>}

\* The quote call k left in quoteRepository.
QuoteOf(k) == quotes[replies[k].saved[1].id]

\* A number rounded to one decimal, half up: floor(x * 10 + 1/2) / 10.
RoundedToTenth(x) == Num((20 * x.n + x.d) \div (2 * x.d), 10)

\* (V/30) * (0.2/layerHeight) * (I/20) * (supports ? 1.3 : 1) * Q as one
\* fraction.
HoursFormula(V, configuration) ==
    Div(Mul(Mul(Mul(V, Num(2, 10)), configuration.infillPercentage),
            Mul(IF configuration.supportStructures THEN Num(13, 10) ELSE Whole(1),
                configuration.quantity)),
        Mul(Whole(30 * 20), configuration.layerHeight))

\* C15: the print time of every saved quote is
\* round1((V/30) * (0.2/layerHeight) * (infillPercentage/20) *
\* (supportStructures ? 1.3 : 1.0) * quantity) of its file volume V and its
\* configuration; at layerHeight 0.2, infill 20 and no supports that is
\* round1(V * quantity / 30).
C15_PrintTimeFormula ==
    \A k \in QuotedCalls :
        /\ QuoteOf(k).estimatedPrintTimeHours =
               RoundedToTenth(HoursFormula(replies[k].fileVolume,
                                           QuoteOf(k).configuration))
        /\ (/\ QuoteOf(k).configuration.layerHeight = Num(2, 10)
            /\ QuoteOf(k).configuration.infillPercentage = Whole(20)
            /\ ~QuoteOf(k).configuration.supportStructures)
           => QuoteOf(k).estimatedPrintTimeHours =
                  RoundedToTenth(Div(Mul(replies[k].fileVolume,
                                         QuoteOf(k).configuration.quantity),
                                     Whole(30)))

\* A quote of three copies of the 100 cm3 file at layer height 0.05, infill
\* 100 and with supports: 100/30 * 4 * 5 * 1.3 * 3 = 260 hours.
C15_Witness ==
    \E k \in QuotedCalls :
        /\ replies[k].fileVolume = Whole(100)
        /\ QuoteOf(k).configuration.layerHeight = Num(5, 100)
        /\ QuoteOf(k).configuration.infillPercentage = Whole(100)
        /\ QuoteOf(k).configuration.supportStructures
        /\ QuoteOf(k).configuration.quantity = Whole(3)
        /\ QuoteOf(k).estimatedPrintTimeHours = Whole(260)

\* The lead time of the material of the quote call k saved, in days; a
\* material without a lead time adds no days.
LeadDaysOf(k) ==
    IF MaterialRows[QuoteOf(k).materialId].leadTimeDays = Null THEN 0
    ELSE MaterialRows[QuoteOf(k).materialId].leadTimeDays.n

\* ceil(hours / 8) of a non-negative number of hours, as an integer.
PrintDays(hours) == (hours.n + 8 * hours.d - 1) \div (8 * hours.d)

\* C16: the delivery days of every saved quote are materialLeadTimeDays +
\* ceil(estimatedHours / 8) + (1 if postProcessing is non-empty, else 0) + 2.
C16_DeliveryDaysFormula ==
    \A k \in QuotedCalls :
        QuoteOf(k).estimatedDeliveryDays =
            Whole(LeadDaysOf(k) + PrintDays(QuoteOf(k).estimatedPrintTimeHours)
                  + (IF QuoteOf(k).configuration.postProcessing # <<>> THEN 1 ELSE 0)
                  + 2)

\* A Standard Resin quote (lead time 4) of 260 hours with sanding:
\* 4 + 33 + 1 + 2 = 40 days.
C16_Witness ==
    \E k \in QuotedCalls :
        /\ QuoteOf(k).materialId = 2
        /\ QuoteOf(k).estimatedPrintTimeHours = Whole(260)
        /\ QuoteOf(k).configuration.postProcessing = <<"sanding">>
        /\ QuoteOf(k).estimatedDeliveryDays = Whole(40)

\* The days added to the lead time and the hours added to the print time
\* when a saved quote is compared with a slower one.
MoreLeadDays == {Whole(1), Whole(5)}
MoreHours == {Num(1, 10), Whole(8), Whole(100)}

\* C17: with the other inputs fixed, a longer material lead time, more
\* print hours, or post-processing changed from empty to non-empty never
\* lowers the delivery estimate.
C17_DeliveryMonotone ==
    \A k \in QuotedCalls :
        /\ \A more \in MoreLeadDays :
               Ge(calculateDeliveryDays(QuoteOf(k).estimatedPrintTimeHours,
                                        Add(Whole(LeadDaysOf(k)), more),
                                        QuoteOf(k).configuration),
                  QuoteOf(k).estimatedDeliveryDays)
        /\ \A more \in MoreHours :
               Ge(calculateDeliveryDays(Add(QuoteOf(k).estimatedPrintTimeHours, more),
                                        Whole(LeadDaysOf(k)),
                                        QuoteOf(k).configuration),
                  QuoteOf(k).estimatedDeliveryDays)
        /\ QuoteOf(k).configuration.postProcessing = <<>> =>
               Ge(calculateDeliveryDays(QuoteOf(k).estimatedPrintTimeHours,
                                        Whole(LeadDaysOf(k)),
                                        [QuoteOf(k).configuration
                                             EXCEPT !.postProcessing = <<"sanding">>]),
                  QuoteOf(k).estimatedDeliveryDays)

\* A PLA quote without post-processing whose estimate is 6 days, and 7 days
\* with post-processing added.
C17_Witness ==
    \E k \in QuotedCalls :
        /\ QuoteOf(k).materialId = 1
        /\ QuoteOf(k).configuration.postProcessing = <<>>
        /\ QuoteOf(k).estimatedDeliveryDays = Whole(6)
        /\ calculateDeliveryDays(QuoteOf(k).estimatedPrintTimeHours, Whole(3),
                                 [QuoteOf(k).configuration
                                      EXCEPT !.postProcessing = <<"sanding">>])
               = Whole(7)

\* The createQuote calls made.
QuoteCalls == {k \in DOMAIN replies : replies[k].call = "createQuote"}

\* The colours of the material the request names; none if there is no such
\* material.
ColorOptionsOf(materialId) ==
    IF materialId \in DOMAIN MaterialRows
    THEN {MaterialRows[materialId].properties.colorOptions[c] :
              c \in DOMAIN MaterialRows[materialId].properties.colorOptions}
    ELSE {}

\* C18: a createQuote call whose colour is not among the colorOptions of
\* its material throws and saves no quote, with BadRequestException when
\* the file and the material were found acceptable; every saved quote has
\* a colour of its material.
C18_ColorValidated ==
    /\ \A k \in QuoteCalls :
           request.dto.color \notin ColorOptionsOf(request.dto.materialId) =>
               /\ replies[k].saved = <<>>
               /\ quotes = <<>>
               /\ replies[k].reply.kind = "thrown"
               /\ (/\ request.dto.fileId \in DOMAIN files
                   /\ files[request.dto.fileId].userId = request.userId
                   /\ files[request.dto.fileId].status = "ready"
                   /\ request.dto.materialId \in DOMAIN MaterialRows)
                  => /\ replies[k].reply.error = "BadRequestException"
                     /\ replies[k].reply.message =
                            "Color is not available for this material"
    /\ \A q \in DOMAIN quotes :
           quotes[q].configuration.color \in ColorOptionsOf(quotes[q].materialId)

\* A request for PLA in "white", which PLA offers only as "White", on a
\* ready file of the caller: rejected with BadRequestException, no quote.
C18_Witness ==
    \E k \in QuoteCalls :
        /\ request.dto.materialId = 1
        /\ request.dto.color = "white"
        /\ request.dto.fileId = 1
        /\ files[1].status = "ready"
        /\ replies[k].reply.kind = "thrown"
        /\ replies[k].reply.error = "BadRequestException"
        /\ quotes = <<>>

\* C22: a quote is priced with the stored analysis volume of its file
\* whenever the file has an analysis; the volume is the default 100 only
\* when the file has no analysis.
C22_AnalysisVolumeUsed ==
    \A k \in QuotedCalls :
        files[QuoteOf(k).fileId].analysis # Null =>
            replies[k].fileVolume = files[QuoteOf(k).fileId].analysis.volume

----------------------------------------------------------------------------
(* Claims on quotes after creation, the cart and createOrder *)

\* C21: once created, a quote keeps its configuration, pricing,
\* estimatedPrintTimeHours, estimatedDeliveryDays and expiresAt through
\* every getQuoteById, getUserQuotes, cart request and createOrder (with
\* its markAsOrdered); only its status changes.
C21_QuoteImmutable ==
    [][\A q \in DOMAIN quotes :
          /\ q \in DOMAIN quotes'
          /\ quotes'[q].configuration = quotes[q].configuration
          /\ quotes'[q].pricing = quotes[q].pricing
          /\ quotes'[q].estimatedPrintTimeHours = quotes[q].estimatedPrintTimeHours
          /\ quotes'[q].estimatedDeliveryDays = quotes[q].estimatedDeliveryDays
          /\ quotes'[q].expiresAt = quotes[q].expiresAt]_vars

\* One quote was marked as ordered by an order, another was saved as
\* expired by a read.
C21_Witness ==
    /\ orders # <<>>
    /\ \E q \in DOMAIN quotes : quotes[q].status = "ordered" /\ quotes[q].expiresAt = 168
    /\ \E q \in DOMAIN quotes : quotes[q].status = "expired"

\* C25: a quote becomes ordered only from the status active and before its
\* expiresAt has passed.
C25_ExpiredNeverOrdered ==
    [][\A q \in DOMAIN quotes :
          (quotes'[q].status = "ordered" /\ quotes[q].status # "ordered")
              => (quotes[q].status = "active" /\ ~(clock > quotes[q].expiresAt))]_vars

\* C29: the cart of a user holds at most one item per quote, every item
\* has totalPrice = unitPrice * quantity, and its unitPrice is the
\* pricing.total of its quote.
C29_CartItems ==
    /\ \A i, j \in DOMAIN cart.items :
           (cart.items[i].cartId = cart.items[j].cartId
            /\ cart.items[i].quoteId = cart.items[j].quoteId) => i = j
    /\ \A i \in DOMAIN cart.items :
           /\ cart.items[i].totalPrice = Mul(cart.items[i].unitPrice, cart.items[i].quantity)
           /\ cart.items[i].unitPrice = quotes[cart.items[i].quoteId].pricing.total

\* A quote added once with the default quantity and once more with
\* quantity 2 is one item of quantity 3.
C29_Witness ==
    /\ replies # <<>>
    /\ replies[1].call = "addItem"
    /\ Len(cart.items) = 1
    /\ cart.issued = 1
    /\ cart.items[1].quantity = Whole(3)
    /\ cart.items[1].totalPrice = Mul(quotes[cart.items[1].quoteId].pricing.total, Whole(3))

-----------------------------------------------------------------------------
(* Claims on order statuses, webhook events and refunds *)

\* The transitions the order workflow allows, status by status.
AllowedNext(status) ==
    CASE status = "pending_payment" -> {"paid", "cancelled"}
      [] status = "paid" -> {"processing", "cancelled", "refunded"}
      [] status = "processing" -> {"printing", "cancelled"}
      [] status = "printing" -> {"post_processing", "quality_check"}
      [] status = "post_processing" -> {"quality_check"}
      [] status = "quality_check" -> {"shipped", "printing"}
      [] status = "shipped" -> {"delivered"}
      [] status = "delivered" -> {"refunded"}
      [] OTHER -> {}

RejectedUpdate(reply) ==
    /\ reply # <<>>
    /\ reply[1].call = "updateOrderStatus"
    /\ reply[1].reply.kind = "thrown"

\* C23: an order's status changes only along the allowed transitions, a
\* cancelled or refunded order never changes status again, and an
\* updateOrderStatus call that throws leaves the order (status, timestamps,
\* status history) as it was.
C23_StatusTransitions ==
    [][/\ \A o \in DOMAIN orders :
              /\ o \in DOMAIN orders'
              /\ orders'[o].status # orders[o].status =>
                     orders'[o].status \in AllowedNext(orders[o].status)
       /\ RejectedUpdate(replies') => orders' = orders]_vars

\* A cancelled order whose next status update was rejected.
C23_Witness ==
    /\ RejectedUpdate(replies)
    /\ replies[1].reply.error = "BadRequestException"
    /\ \E o \in DOMAIN orders :
           /\ orders[o].status = "cancelled"
           /\ Len(orders[o].history) = 3

\* C24: a step marks a payment succeeded only together with its order
\* moving from pending_payment to paid.
C24_WebhookAllOrNothing ==
    [][\A p \in DOMAIN payments.rows :
           (/\ payments'.rows[p].status = "succeeded"
            /\ payments.rows[p].status # "succeeded") =>
               /\ orders[payments.rows[p].orderId].status = "pending_payment"
               /\ orders'[payments.rows[p].orderId].status = "paid"]_vars

RefundRejected ==
    Throws("refundPayment", "BadRequestException",
           "Refund amount exceeds available balance")

\* C28: after every step each payment has 0 <= refundedAmount <= amount; a
\* refund rejected for exceeding the balance leaves the payment as it was;
\* a step that changes refundedAmount raises it and leaves the payment
\* refunded when refundedAmount equals amount, partially_refunded otherwise.
C28_RefundBounds ==
    [][\A p \in DOMAIN payments'.rows :
           /\ Ge(payments'.rows[p].refundedAmount, Whole(0))
           /\ Ge(payments'.rows[p].amount, payments'.rows[p].refundedAmount)
           /\ p \in DOMAIN payments.rows =>
                  /\ replies' = RefundRejected =>
                         payments'.rows[p] = payments.rows[p]
                  /\ payments'.rows[p].refundedAmount # payments.rows[p].refundedAmount =>
                         /\ Gt(payments'.rows[p].refundedAmount,
                               payments.rows[p].refundedAmount)
                         /\ payments'.rows[p].status =
                                IF payments'.rows[p].refundedAmount =
                                       payments'.rows[p].amount
                                THEN "refunded" ELSE "partially_refunded"]_vars

\* A payment refunded in part and succeeded again (the event was delivered
\* again), whose next refund exceeded what was left.
C28_Witness ==
    /\ replies = RefundRejected
    /\ \E p \in DOMAIN payments.rows :
           /\ payments.rows[p].status = "succeeded"
           /\ payments.rows[p].refundedAmount = Whole(80)

-----------------------------------------------------------------------------
(* Claims on refresh tokens and passwords *)

\* C26: a refreshTokens call is accepted only for a token that is neither
\* revoked nor expired, and it issues new tokens only while the token it
\* presented is not revoked (by another refreshTokens call, logout or
\* logoutAll); so of the calls presenting a token at most one succeeds.
C26_SingleUse ==
    [][/\ \A call \in calls' \ calls :
              /\ ~refreshTokens[call.record].isRevoked
              /\ refreshTokens[call.record].expiresAt > clock
       /\ \A call \in calls \ calls' :
              Len(refreshTokens') > Len(refreshTokens) =>
                  ~refreshTokens[call.record].isRevoked]_vars

\* The last call changed the password of user u: changePassword for u, or
\* resetPassword with the reset token u held.
PasswordSetFor(u, reply) ==
    /\ reply # <<>>
    /\ reply[1].reply.kind = "returned"
    /\ \/ /\ reply[1].call = "changePassword"
          /\ reply[1].args.userId = users.rows[u].id
       \/ /\ reply[1].call = "resetPassword"
          /\ reply[1].args.token = users.rows[u].passwordResetToken

-----------------------------------------------------------------------------
(* Claims on the addresses of a user *)

DefaultsOf(rows, userId, type) ==
    {a \in DOMAIN rows :
        rows[a].userId = userId /\ rows[a].type = type /\ rows[a].isDefault}

AddressesOfType(rows, userId, type) ==
    {a \in DOMAIN rows : rows[a].userId = userId /\ rows[a].type = type}

\* C30: a user has at most one default address of each type; the first
\* address created for a type is the default; deleting the default address
\* of a type leaves a default of that type when addresses of it remain.
\* It holds for update DTOs that carry isDefault alone; whether an update
\* can also change an address's type is not decided by the modelled sources.
C30_OneDefault ==
    [][/\ \A userId \in Users, type \in AddressType :
              /\ Cardinality(DefaultsOf(addresses'.rows, userId, type)) <= 1
              /\ (/\ AddressesOfType(addresses.rows, userId, type) = {}
                  /\ AddressesOfType(addresses'.rows, userId, type) # {}) =>
                     DefaultsOf(addresses'.rows, userId, type) # {}
       /\ (/\ replies' # <<>>
           /\ replies'[1].call = "deleteAddress"
           /\ replies'[1].reply.kind = "returned"
           /\ replies'[1].reply.value.isDefault) =>
              \/ AddressesOfType(addresses'.rows, replies'[1].reply.value.userId,
                                 replies'[1].reply.value.type) = {}
              \/ DefaultsOf(addresses'.rows, replies'[1].reply.value.userId,
                            replies'[1].reply.value.type) # {}]_vars

=============================================================================
